---- MODULE Spec2Model ----
(***************************************************************************)
(* StyleScope: quota guard, scoring engine, books upsert store, on-demand  *)
(* scoring jobs and book-context adapters.                                 *)
(*                                                                         *)
(* The module holds several specifications over one set of variables.      *)
(* Each specification drives one component and leaves the variables of the *)
(* other components at their initial values:                               *)
(*   SpecQuota      concurrent _check_and_increment_usage calls            *)
(*   SpecQuotaSeq   _check_and_increment_usage / _get_usage_count, one     *)
(*                  call at a time                                         *)
(*   SpecOverall    _calculate_overall on bounded dimension scores         *)
(*   SpecScore      score_book, one invocation, attempt by attempt         *)
(*   SpecUpsert     upsert_scored_book, one call at a time                 *)
(*   SpecUpsertConc concurrent on-demand runs reaching upsert_scored_book  *)
(*   SpecOnDemand   POST /api/score-on-demand and _run_scoring_job         *)
(*   SpecOnDemandLive  SpecOnDemand with fair thread scheduling            *)
(*   SpecCache      SpecOnDemand together with batch score_single_book     *)
(*   SpecContext    fetch_book_context over the adapters' outcomes         *)
(*   SpecAdapters   the Hardcover and Google Books adapters                *)
(*   SpecRequests   _hc_request and _search_google_books, request by       *)
(*                  request                                                *)
(*   SpecExcerpts   _filter_quality_excerpts and the excerpt backfill      *)
(***************************************************************************)
EXTENDS Integers, Sequences, FiniteSets, TLC

VARIABLES
    \* ---- quota guard (backend/api.py, table on_demand_usage) ----
    usage,       \* the table: a function from <<user_key, year_month>> to count
    clockMonth,  \* the wall clock, in months since year 0
    qpc,         \* per caller: position inside _check_and_increment_usage
    qkey,        \* per caller: <<user_key, year_month>> of the running call
    qcur,        \* per caller: the local variable current
    qret,        \* the last value returned by a quota call
    nAllowed,    \* per key: number of calls that returned allowed = True
    nCalls,      \* number of quota calls started
    \* ---- _calculate_overall (backend/scorer.py) ----
    dimScores,   \* the argument scores: the five dimension scores
    overall,     \* the value returned, None before the call
    \* ---- score_book (backend/scorer.py) ----
    sArgs,       \* has_key (OPENROUTER_API_KEY set), context_text, review_count
    spc,         \* position: entry, attempt, inflight, sleep, exhausted, returned
    attempt,     \* the loop variable attempt
    last_error,  \* the local last_error: None or Some(message)
    response,    \* what the latest LLM call produced, once it has returned
    llmCalls,    \* number of requests.post calls issued
    inFlight,    \* number of LLM calls issued and not yet returned
    lastWait,    \* the last time.sleep: <<attempt, tenths of a second>>
    nWaits,      \* number of time.sleep calls
    sresult,     \* the value returned by score_book, None before it returns
    \* ---- upsert_scored_book (backend/books_upsert.py, table books) ----
    books,       \* the table: a set of rows
    now,         \* the wall clock (datetime.now), in ticks
    fresh,       \* the pairs that had no row initially
    lastCall,    \* the latest sequential call and its now_iso, None before it
    nUpserts,    \* number of sequential calls made
    nIncr,       \* per pair: number of calls with increment_requested = True
    nCallsFor,   \* per pair: number of calls
    upsertRet,   \* the book_id returned by the latest sequential call
    wpc,         \* per worker: position inside upsert_scored_book
    wcall,       \* per worker: the arguments of its call
    wnow,        \* per worker: its local now_iso
    lock,        \* the worker holding SQLite's write lock, None if free
    pending,     \* the table as the open write transaction sees it
    commitOrder, \* the workers in the order of their commits
    wret,        \* per worker: the book_id it returned
    \* ---- score_on_demand and _run_scoring_job (backend/api.py) ----
    jobs,        \* the table on_demand_jobs: a function from job id to its row
    threads,     \* the job ids a worker thread was started for
    jobCalls,    \* per job: the adapter and LLM calls its worker has made
    jwork,       \* per job: its worker's position and locals scores, book_id
    batch,       \* the runs of score_single_book, with what each returned
    events,      \* the table analytics_events: per event name, its rows
    hpc,         \* position of the request handler
    hreq,        \* the request being handled: title, author, isbn, user_key
    hquota,      \* what _check_and_increment_usage returned to this request
    hresp,       \* the latest HTTP response, None before the first
    nRequests,   \* number of requests received
    \* ---- fetch_book_context (backend/book_context.py) ----
    cpc,         \* position inside fetch_book_context
    hc,          \* the local hc: None or Some(record)
    google,      \* the local google
    open_library, \* the local open_library
    adapterLog,  \* the adapters called, in order, with how each call ended
    ctxOut,      \* the Context returned, None before the return
    \* ---- fetch_google_book, fetch_hardcover_book ----
    aArgs,       \* title, author and the candidates the search returns
    aOut,        \* None, or Some of the adapter called and what it returned
    \* ---- _hc_request, _search_google_books ----
    rpc,         \* the request fetch_hardcover_book is at, idle before it
    rattempt,    \* the loop variable attempt of _hc_request
    rlog,        \* the HTTP requests issued, in order, with how each ended
    rslept,      \* seconds slept between attempts
    \* ---- _filter_quality_excerpts and the backfill of fetch_book_context ----
    xArgs,       \* the raw reviews handed in
    xOut         \* None, or Some of the quality excerpts and the excerpts

quotaVars == <<usage, clockMonth, qpc, qkey, qcur, qret, nAllowed, nCalls>>
overallVars == <<dimScores, overall>>
scoreVars == <<sArgs, spc, attempt, last_error, response, llmCalls, inFlight,
               lastWait, nWaits, sresult>>

seqUpsertVars == <<lastCall, nUpserts, nIncr, nCallsFor, upsertRet>>
workerVars == <<wpc, wcall, wnow, lock, pending, commitOrder, wret>>
upsertVars == <<books, now, fresh, seqUpsertVars, workerVars>>
handlerVars == <<hpc, hreq, hquota, hresp, nRequests>>
onDemandVars == <<jobs, threads, jobCalls, jwork, batch, events, handlerVars>>
contextVars == <<cpc, hc, google, open_library, adapterLog, ctxOut>>
adapterVars == <<aArgs, aOut>>
requestVars == <<rpc, rattempt, rlog, rslept>>
excerptVars == <<xArgs, xOut>>

\* What an action of one component leaves alone: the other components.
newerVars == <<onDemandVars, contextVars, adapterVars, requestVars,
              excerptVars>>
notQuotaVars == <<overallVars, scoreVars, upsertVars, newerVars>>
notOverallVars == <<quotaVars, scoreVars, upsertVars, newerVars>>
notScoreVars == <<quotaVars, overallVars, upsertVars, newerVars>>
notUpsertVars == <<quotaVars, overallVars, scoreVars, newerVars>>
\* score_on_demand and its worker write the tables usage and books themselves.
notOnDemandVars == <<clockMonth, qpc, qkey, qcur, qret, nAllowed, nCalls,
                     overallVars, scoreVars, fresh, seqUpsertVars, workerVars,
                     contextVars, adapterVars, requestVars, excerptVars>>
notContextVars == <<quotaVars, overallVars, scoreVars, upsertVars,
                    onDemandVars, adapterVars, requestVars, excerptVars>>
notAdapterVars == <<quotaVars, overallVars, scoreVars, upsertVars,
                    onDemandVars, contextVars, requestVars, excerptVars>>
notRequestVars == <<quotaVars, overallVars, scoreVars, upsertVars,
                    onDemandVars, contextVars, adapterVars, excerptVars>>
notExcerptVars == <<quotaVars, overallVars, scoreVars, upsertVars,
                    onDemandVars, contextVars, adapterVars, requestVars>>

vars == <<usage, clockMonth, qpc, qkey, qcur, qret, nAllowed, nCalls,
          dimScores, overall,
          sArgs, spc, attempt, last_error, response, llmCalls, inFlight,
          lastWait, nWaits, sresult,
          books, now, fresh, lastCall, nUpserts, nIncr, nCallsFor, upsertRet,
          wpc, wcall, wnow, lock, pending, commitOrder, wret,
          jobs, threads, jobCalls, jwork, batch, events,
          hpc, hreq, hquota, hresp, nRequests,
          cpc, hc, google, open_library, adapterLog, ctxOut,
          aArgs, aOut, rpc, rattempt, rlog, rslept, xArgs, xOut>>

\* SQL NULL in a text column (distinct from the empty string '').
NULL == "NULL"

\* Python None / SQL NULL where the value is a number: an optional value is a
\* sequence of length at most one.
None == <<>>
Some(v) == <<v>>

(***************************************************************************)
(* _calculate_overall                                                      *)
(***************************************************************************)

Dimensions == {"readability", "grammar", "polish", "prose", "pacing"}

\* Dimension scores the model draws from: every readability in 0..100, and
\* for the four other dimensions values that put the weighted sum on, below
\* and above the cap and on exact halves.
ReadabilitySamples == 0 .. 100
OtherSamples == {0, 35, 70, 100}

\* raw = r*0.40 + g*0.15 + p*0.15 + pr*0.15 + pa*0.15, kept exact as 20 * raw.
Raw20(scores) ==
    8 * scores["readability"]
      + 3 * (scores["grammar"] + scores["polish"] + scores["prose"] + scores["pacing"])

\* overall = round(raw). raw is a binary floating point sum: off a half it
\* is within 1e-12 of the exact value and round() gives the one nearest
\* integer; on an exact half (20 * raw = 10 mod 20) the floating point sum
\* falls on either side (r=33,g=58,p=67,pr=20,pa=17 gives 37.49999999999999,
\* r=85,g=13,p=59,pr=19,pa=59 gives 56.50000000000001), so either neighbour
\* can be returned.
RoundRaw(n20) ==
    IF n20 % 20 = 10
    THEN {n20 \div 20, n20 \div 20 + 1}
    ELSE {(n20 + 10) \div 20}

\* A variant that caps at readability 70 too.
ReadabilityCapInclusive(r, o) == IF r <= 70 /\ o > 75 THEN 75 ELSE o

\* if r < 70 and overall > 75: overall = 75
ReadabilityCap(r, o) == IF r < 70 /\ o > 75 THEN 75 ELSE o

\* The values _calculate_overall(scores) can return.
CalculateOverall(scores) ==
    {ReadabilityCap(scores["readability"], o) : o \in RoundRaw(Raw20(scores))}

OverallIdle ==
    /\ dimScores = [d \in Dimensions |-> 70]
    /\ overall = None

OverallInit ==
    /\ \E r \in ReadabilitySamples, o \in [Dimensions \ {"readability"} -> OtherSamples] :
         dimScores = [d \in Dimensions |-> IF d = "readability" THEN r ELSE o[d]]
    /\ overall = None

CallCalculateOverall ==
    /\ overall = None
    /\ \E o \in CalculateOverall(dimScores) : overall' = Some(o)
    /\ UNCHANGED <<dimScores, notOverallVars>>

NextOverall == CallCalculateOverall


(***************************************************************************)
(* score_book and _parse_llm_response                                      *)
(***************************************************************************)

GEMINI_RETRY_MAX == 3

\* Bound of the scoring model: the longest LLM response text, in tokens.
MaxTextLen == 3

\* -- strings.  A text is a sequence of tokens.  A JSON document is one
\*    token; what it parses to is given by JsonValue.
\* The fence tokens stand for three backticks, alone and followed by json.
Fences == {"[fence]", "[fence]json"}
ObjectDocs == {"{full}", "{lowread}", "{missing}", "{over}"}
ScalarDocs == {"null", "42"}
JsonDocs == ObjectDocs \cup ScalarDocs
\* The start of an array nested deeper than the interpreter's recursion
\* limit ("[" repeated 100000 times).
DeepDocs == {"[[deep"}
TextTokens == Fences \cup JsonDocs \cup DeepDocs \cup {"prose"}

SeqsUpTo(S, n) == UNION {[1 .. k -> S] : k \in 0 .. n}

LLMTexts == SeqsUpTo(TextTokens, MaxTextLen)

\* Python values a parse can produce.
PyDict(scores, confidence, flags) ==
    [type |-> "dict", scores |-> scores, confidence |-> confidence, flags |-> flags]
PyNone == [type |-> "none", scores |-> <<>>, confidence |-> None, flags |-> <<>>]
PyInt == [type |-> "int", scores |-> <<>>, confidence |-> None, flags |-> <<>>]
\* No value: an exception other than JSONDecodeError left the function.
PyRaise == [type |-> "raise", scores |-> <<>>, confidence |-> None, flags |-> <<>>]

FullScores ==
    [d \in Dimensions |->
        CASE d = "readability" -> 78 [] d = "grammar" -> 72 [] d = "polish" -> 70
          [] d = "prose" -> 68 [] OTHER -> 75]
LowReadScores == [d \in Dimensions |-> IF d = "readability" THEN 60 ELSE 100]
MissingScores == [d \in Dimensions \ {"pacing"} |-> 80]
OverScores == [d \in Dimensions |-> 120]

JsonValue(doc) ==
    CASE doc = "{full}" -> PyDict(FullScores, Some(78), <<>>)
      [] doc = "{lowread}" -> PyDict(LowReadScores, Some(30), <<<<"uneven sample">>>>)
      [] doc = "{missing}" -> PyDict(MissingScores, Some(60), <<>>)
      [] doc = "{over}" -> PyDict(OverScores, Some(90), <<>>)
      [] doc = "null" -> PyNone
      [] OTHER -> PyInt

\* json.loads: the text must be exactly one JSON document; anything else
\* (no document, prose, a fence, text after the document) raises
\* JSONDecodeError, except that a text starting with a too deeply nested
\* array raises RecursionError before the decoder reaches its end.
JsonLoads(text) ==
    IF Len(text) = 1 /\ text[1] \in JsonDocs
    THEN [ok |-> TRUE, raises |-> FALSE, value |-> JsonValue(text[1])]
    ELSE IF text # <<>> /\ Head(text) \in DeepDocs
    THEN [ok |-> FALSE, raises |-> TRUE, value |-> PyRaise]
    ELSE [ok |-> FALSE, raises |-> FALSE, value |-> PyNone]

\* re.sub(r"[fence](?:json)?", "", text).strip()
StripFences(text) == SelectSeq(text, LAMBDA t : t \notin Fences)

\* re.search(r"\{.*\}", text, re.DOTALL): from the first "{" to the last "}".
\* Braces occur in object documents only.
HasOpen(t) == t \in ObjectDocs
HasClose(t) == t \in ObjectDocs
BraceSpan(text) ==
    LET opens == {i \in 1 .. Len(text) : HasOpen(text[i])}
        closes == {i \in 1 .. Len(text) : HasClose(text[i])}
    IN IF opens = {} \/ closes = {}
       THEN [found |-> FALSE, span |-> <<>>]
       ELSE LET i == CHOOSE x \in opens : \A y \in opens : x <= y
                j == CHOOSE x \in closes : \A y \in closes : y <= x
            IN IF j > i \/ (j = i /\ text[i] \in ObjectDocs)
               THEN [found |-> TRUE, span |-> SubSeq(text, i, j)]
               ELSE [found |-> FALSE, span |-> <<>>]

\* Strategy 4: the synthetic low-confidence default.
DefaultParse ==
    PyDict([d \in Dimensions |-> 50], Some(0), <<<<"json_parse_failure">>>>)

\* The strategy of _parse_llm_response that yields the value: 1, 2, 3, or 4
\* for the default; 0 when a json.loads call raises something the
\* "except json.JSONDecodeError" clauses do not catch.
ParseStrategy(text) ==
    IF JsonLoads(text).raises THEN 0
    ELSE IF JsonLoads(text).ok THEN 1
    ELSE IF JsonLoads(StripFences(text)).raises THEN 0
    ELSE IF JsonLoads(StripFences(text)).ok THEN 2
    ELSE IF BraceSpan(text).found /\ JsonLoads(BraceSpan(text).span).raises THEN 0
    ELSE IF BraceSpan(text).found /\ JsonLoads(BraceSpan(text).span).ok THEN 3
    ELSE 4

ParseLlmResponse(text) ==
    CASE ParseStrategy(text) = 0 -> PyRaise
      [] ParseStrategy(text) = 1 -> JsonLoads(text).value
      [] ParseStrategy(text) = 2 -> JsonLoads(StripFences(text)).value
      [] ParseStrategy(text) = 3 -> JsonLoads(BraceSpan(text).span).value
      [] OTHER -> DefaultParse

\* -- error messages: sequences of words; lower() maps a word to lower case.
Lower(w) ==
    CASE w = "JSON" -> "json"
      [] w = "Rate Limit" -> "rate limit"
      [] w = "Internal Server Error" -> "internal server error"
      [] w = "Not Found" -> "not found"
      [] OTHER -> w

In(marker, msg) == \E i \in 1 .. Len(msg) : msg[i] = marker
InLower(marker, msg) == \E i \in 1 .. Len(msg) : Lower(msg[i]) = marker

\* _classify_error
ClassifyError(msg) ==
    IF msg = <<>> THEN <<"unknown_error">>
    ELSE IF In("500", msg) \/ InLower("internal server error", msg)
    THEN <<"api_error_500">>
    ELSE IF In("429", msg) \/ InLower("rate limit", msg)
    THEN <<"api_error_rate_limit">>
    ELSE IF InLower("json", msg) \/ InLower("parse", msg)
    THEN <<"json_parse_failure">>
    ELSE IF InLower("not found", msg) \/ In("404", msg)
    THEN <<"book_not_found">>
    ELSE IF InLower("no context", msg)
    THEN <<"no_context_found">>
    ELSE <<"scoring_error:">> \o msg

\* Messages of the exceptions requests.post, raise_for_status, response.json()
\* and raw["choices"] can raise.
TransportErrors ==
    { <<"429", "Client Error: Too Many Requests">>,
      <<"Rate Limit", "exceeded">>,
      <<"500", "Server Error:", "Internal Server Error">>,
      <<"502", "Server Error: Bad Gateway">>,
      <<"429", "Too Many Requests; upstream said", "500">>,
      <<"Read timed out.">>,
      <<"'choices'">>,
      <<>> }

\* Messages of the exceptions score_book raises itself.
CouldNotParse == <<"Could not", "parse", "JSON", "from LLM response">>
NoGetAttribute == <<"'int' object has no attribute 'get'">>
MissingScoreKeys == <<"Missing score keys:", "{'pacing'}">>
\* str(e) of the RecursionError json.loads raises.
RecursionErrorMsg == <<"maximum recursion depth exceeded while decoding a", "JSON", "array">>

\* What one LLM call can produce: an exception, or a response text.
Raises(msg) == [kind |-> "raise", msg |-> msg, text |-> <<>>]
Replies(text) == [kind |-> "text", msg |-> <<>>, text |-> text]
LLMOutcomes == {Raises(m) : m \in TransportErrors} \cup {Replies(t) : t \in LLMTexts}
NoResponse == [kind |-> "none", msg |-> <<>>, text |-> <<>>]

\* -- context_text: a sequence of runs [ch, n] of n equal characters.
Run(ch, n) == [ch |-> ch, n |-> n]
RECURSIVE TextLen(_)
TextLen(runs) == IF runs = <<>> THEN 0 ELSE Head(runs).n + TextLen(Tail(runs))
RECURSIVE LStrip(_)
LStrip(runs) ==
    IF runs # <<>> /\ Head(runs).ch = " " THEN LStrip(Tail(runs)) ELSE runs
RECURSIVE RStrip(_)
RStrip(runs) ==
    IF runs # <<>> /\ runs[Len(runs)].ch = " "
    THEN RStrip(SubSeq(runs, 1, Len(runs) - 1))
    ELSE runs
Strip(runs) == RStrip(LStrip(runs))

ContextSamples ==
    { <<>>,
      <<Run(" ", 3)>>,
      <<Run(" ", 1), Run("x", 798)>>,
      <<Run("x", 800)>> }
ReviewCountSamples == {0, 4, 5}

\* random.uniform(0, 1), in tenths of a second.
JitterTenths == {0, 9}

\* A variant whose exponent starts at zero.
WaitTenthsFromZero(k, jitter) == 10 * (2 ^ (k - 1)) + jitter

\* wait_time = (2**attempt) + random.uniform(0, 1), in tenths of a second.
WaitTenths(k, jitter) == 10 * (2 ^ k) + jitter

\* A variant that allows one more round.
RetryAllowedOffByOne(k) == k < GEMINI_RETRY_MAX + 1

\* if attempt < GEMINI_RETRY_MAX: sleep and go round the loop again.
RetryAllowed(k) == k < GEMINI_RETRY_MAX

\* The result dictionaries.
Result(status, overallScore, scores, confidence, flags) ==
    [scoring_status |-> status, overall_score |-> overallScore, scores |-> scores,
     confidence |-> confidence, flags |-> flags,
     review_count |-> sArgs.review_count]

\* A variant whose failure result carries a score of 0.
ErrorResultZeroScore(status, flags) == Result(status, Some(0), <<>>, Some(0), flags)

ErrorResult(status, flags) == Result(status, None, <<>>, Some(0), flags)

\* A variant that also flags a review count of exactly 5.
LowConfidenceFlagsInclusive(reviewCount, context) ==
    (IF reviewCount <= 5
     THEN <<<<"low_confidence:", "fewer than 5 review-derived snippets">>>>
     ELSE <<>>)
    \o (IF TextLen(context) < 800
        THEN <<<<"low_confidence:", "limited context length">>>>
        ELSE <<>>)

\* lines 457-462: the low-confidence flags.
LowConfidenceFlags(reviewCount, context) ==
    (IF reviewCount < 5
     THEN <<<<"low_confidence:", "fewer than 5 review-derived snippets">>>>
     ELSE <<>>)
    \o (IF TextLen(context) < 800
        THEN <<<<"low_confidence:", "limited context length">>>>
        ELSE <<>>)

\* What the body of the try block does with the outcome of the LLM call:
\* the exception it raises, or the parsed dictionary it goes on with.
AttemptOutcome(o) ==
    IF o.kind = "raise" THEN [raised |-> TRUE, msg |-> o.msg, parsed |-> PyNone]
    ELSE LET parsed == ParseLlmResponse(o.text) IN
         IF parsed.type = "raise"
         THEN [raised |-> TRUE, msg |-> RecursionErrorMsg, parsed |-> parsed]
         ELSE IF parsed.type = "none"
         THEN [raised |-> TRUE, msg |-> CouldNotParse, parsed |-> parsed]
         ELSE IF parsed.type # "dict"
         THEN [raised |-> TRUE, msg |-> NoGetAttribute, parsed |-> parsed]
         ELSE IF ~(Dimensions \subseteq DOMAIN parsed.scores)
         THEN [raised |-> TRUE, msg |-> MissingScoreKeys, parsed |-> parsed]
         ELSE [raised |-> FALSE, msg |-> <<>>, parsed |-> parsed]

\* Every outcome of the LLM call paired with what the try block does with
\* it: the pairs in which it raises, and those in which it does not.
AttemptTable == {<<o, AttemptOutcome(o)>> : o \in LLMOutcomes}
RaisingOutcomes == {p \in AttemptTable : p[2].raised}
ValidOutcomes == {p \in AttemptTable : ~p[2].raised}

ScoreIdle ==
    /\ sArgs = [has_key |-> TRUE, context |-> <<>>, review_count |-> 0]
    /\ spc = "entry"
    /\ attempt = 0
    /\ last_error = None
    /\ response = NoResponse
    /\ llmCalls = 0
    /\ inFlight = 0
    /\ lastWait = <<0, 0>>
    /\ nWaits = 0
    /\ sresult = None

ScoreInit ==
    /\ sArgs \in [has_key : BOOLEAN, context : ContextSamples,
                  review_count : ReviewCountSamples]
    /\ spc = "entry"
    /\ attempt = 0
    /\ last_error = None
    /\ response = NoResponse
    /\ llmCalls = 0
    /\ inFlight = 0
    /\ lastWait = <<0, 0>>
    /\ nWaits = 0
    /\ sresult = None

\* A variant that tests the context without stripping it.
NoContextUnstripped(context) == context = <<>>

\* line 389: not context_text or len(context_text.strip()) == 0
NoContext(context) == context = <<>> \/ TextLen(Strip(context)) = 0

\* lines 374-387: no API key.
ReturnMissingKey ==
    /\ spc = "entry"
    /\ ~sArgs.has_key
    /\ sresult' = Some(ErrorResult("error", <<<<"missing_openrouter_api_key">>>>))
    /\ spc' = "returned"
    /\ UNCHANGED <<sArgs, attempt, last_error, response, llmCalls, inFlight,
                   lastWait, nWaits, notScoreVars>>

\* lines 389-402: empty or whitespace-only context.
ReturnNoContext ==
    /\ spc = "entry"
    /\ sArgs.has_key
    /\ NoContext(sArgs.context)
    /\ sresult' = Some(ErrorResult("error", <<<<"no_context_found">>>>))
    /\ spc' = "returned"
    /\ UNCHANGED <<sArgs, attempt, last_error, response, llmCalls, inFlight,
                   lastWait, nWaits, notScoreVars>>

\* lines 404-415: the prompt is built and the loop is entered.
EnterLoop ==
    /\ spc = "entry"
    /\ sArgs.has_key
    /\ ~NoContext(sArgs.context)
    /\ attempt' = 1
    /\ spc' = "attempt"
    /\ UNCHANGED <<sArgs, last_error, response, llmCalls, inFlight, lastWait,
                   nWaits, sresult, notScoreVars>>

\* line 419: requests.post is issued.
PostRequest ==
    /\ spc = "attempt"
    /\ llmCalls' = llmCalls + 1
    /\ inFlight' = inFlight + 1
    /\ response' = NoResponse
    /\ spc' = "inflight"
    /\ UNCHANGED <<sArgs, attempt, last_error, lastWait, nWaits, sresult,
                   notScoreVars>>

\* lines 438-470: the call returned a text that parses to a dictionary with
\* the five dimension keys; score_book returns it with status ok.
AttemptSucceeds ==
    /\ spc = "inflight"
    /\ \E p \in ValidOutcomes :
         /\ response' = p[1]
         /\ LET parsed == p[2].parsed IN
              \E ov \in CalculateOverall(parsed.scores) :
                 sresult' = Some(Result("ok", Some(ov), parsed.scores,
                                        parsed.confidence,
                                        parsed.flags
                                          \o LowConfidenceFlags(sArgs.review_count,
                                                                sArgs.context)))
    /\ inFlight' = inFlight - 1
    /\ spc' = "returned"
    /\ UNCHANGED <<sArgs, attempt, last_error, llmCalls, lastWait, nWaits,
                   notScoreVars>>

\* lines 472-481: an exception in the try block; last_error is set, and the
\* loop sleeps before the next attempt or ends.
AttemptRaises ==
    /\ spc = "inflight"
    /\ \E p \in RaisingOutcomes :
         /\ response' = p[1]
         /\ last_error' = Some(p[2].msg)
    /\ inFlight' = inFlight - 1
    /\ spc' = IF RetryAllowed(attempt) THEN "sleep" ELSE "exhausted"
    /\ UNCHANGED <<sArgs, attempt, llmCalls, lastWait, nWaits, sresult,
                   notScoreVars>>

\* line 481: time.sleep(wait_time), then the next iteration.
Backoff(jitter) ==
    /\ spc = "sleep"
    /\ lastWait' = <<attempt, WaitTenths(attempt, jitter)>>
    /\ nWaits' = nWaits + 1
    /\ attempt' = attempt + 1
    /\ spc' = "attempt"
    /\ UNCHANGED <<sArgs, last_error, response, llmCalls, inFlight, sresult,
                   notScoreVars>>

\* lines 483-507: all attempts failed.
ReturnFailure ==
    /\ spc = "exhausted"
    /\ LET classification == ClassifyError(last_error[1])
           is_rate_limit == classification = <<"api_error_rate_limit">>
       IN sresult' =
            Some(ErrorResult(IF is_rate_limit THEN "temporarily_unavailable"
                                              ELSE "error",
                             IF is_rate_limit THEN <<<<"openrouter_rate_limited">>>>
                                              ELSE <<classification>>))
    /\ spc' = "returned"
    /\ UNCHANGED <<sArgs, attempt, last_error, response, llmCalls, inFlight,
                   lastWait, nWaits, notScoreVars>>

NextScore ==
    \/ ReturnMissingKey
    \/ ReturnNoContext
    \/ EnterLoop
    \/ PostRequest
    \/ AttemptSucceeds
    \/ AttemptRaises
    \/ \E j \in JitterTenths : Backoff(j)
    \/ ReturnFailure

(***************************************************************************)
(* Quota guard                                                             *)
(***************************************************************************)

ON_DEMAND_MONTHLY_CAP == 10

\* Bounds of the quota model.
MaxQuotaCalls == 12
MaxMonthsAhead == 1

Callers == {"c1", "c2"}
Identities == {"u:7", "ip:10.0.0.9"}

\* datetime.utcnow().strftime("%Y-%m"): the year and the month of the year.
YearMonth(m) == <<m \div 12, (m % 12) + 1>>

\* INSERT ... VALUES (?, ?, 0) ON CONFLICT(user_key, year_month) DO NOTHING
InsertIfMissing(u, key) ==
    IF key \in DOMAIN u THEN u ELSE u @@ (key :> 0)

\* A variant that reads the highest count the identity has in any month.
SelectCountAnyMonth(u, key) ==
    LET rows == {k \in DOMAIN u : k[1] = key[1]}
    IN IF rows = {} THEN 0
       ELSE u[CHOOSE k \in rows : \A j \in rows : u[k] >= u[j]]

\* SELECT count ...; current = row["count"] if row else 0
SelectCount(u, key) ==
    IF key \in DOMAIN u THEN u[key] ELSE 0

\* UPDATE on_demand_usage SET count = count + 1 WHERE user_key=? AND year_month=?
UpdateCount(u, key) ==
    [k \in DOMAIN u |-> IF k = key THEN u[k] + 1 ELSE u[k]]

\* A variant that still allows a call at the cap.
UnderCapOffByOne(current) == current <= ON_DEMAND_MONTHLY_CAP

\* if current >= ON_DEMAND_MONTHLY_CAP: return False, current
UnderCap(current) == ~(current >= ON_DEMAND_MONTHLY_CAP)

NoRet == [op |-> "none", key |-> <<"", <<0, 0>>>>, allowed |-> FALSE, count |-> 0]

QuotaInit ==
    /\ usage = <<>>
    /\ clockMonth = 11
    /\ qpc = [c \in Callers |-> "idle"]
    /\ qkey = [c \in Callers |-> <<"", <<0, 0>>>>]
    /\ qcur = [c \in Callers |-> 0]
    /\ qret = NoRet
    /\ nAllowed = [k \in {} |-> 0]
    /\ nCalls = 0

Bump(f, key) ==
    IF key \in DOMAIN f THEN [f EXCEPT ![key] = @ + 1] ELSE f @@ (key :> 1)

Allowed(key) == IF key \in DOMAIN nAllowed THEN nAllowed[key] ELSE 0

\* The calendar month changes.
MonthPasses ==
    /\ clockMonth < 11 + MaxMonthsAhead
    /\ clockMonth' = clockMonth + 1
    /\ UNCHANGED <<usage, qpc, qkey, qcur, qret, nAllowed, nCalls, notQuotaVars>>

\* -- one call, step by step: every commit is a point where another
\*    connection's statements can run.

\* lines 363-373: year_month is read, the row is created if missing, commit.
QInsert(c, id) ==
    /\ qpc[c] = "idle"
    /\ nCalls < MaxQuotaCalls
    /\ LET key == <<id, YearMonth(clockMonth)>> IN
         /\ usage' = InsertIfMissing(usage, key)
         /\ qkey' = [qkey EXCEPT ![c] = key]
    /\ qpc' = [qpc EXCEPT ![c] = "inserted"]
    /\ nCalls' = nCalls + 1
    /\ UNCHANGED <<clockMonth, qcur, qret, nAllowed, notQuotaVars>>

\* lines 375-379: the count is read into current.
QSelect(c) ==
    /\ qpc[c] = "inserted"
    /\ qcur' = [qcur EXCEPT ![c] = SelectCount(usage, qkey[c])]
    /\ qpc' = [qpc EXCEPT ![c] = "selected"]
    /\ UNCHANGED <<usage, clockMonth, qkey, qret, nAllowed, nCalls, notQuotaVars>>

\* lines 381-382: at or over the cap, return (False, current).
QDeny(c) ==
    /\ qpc[c] = "selected"
    /\ ~UnderCap(qcur[c])
    /\ qret' = [op |-> "check", key |-> qkey[c], allowed |-> FALSE, count |-> qcur[c]]
    /\ qpc' = [qpc EXCEPT ![c] = "idle"]
    /\ UNCHANGED <<usage, clockMonth, qkey, qcur, nAllowed, nCalls, notQuotaVars>>

\* lines 384-389: UPDATE count = count + 1, commit, return (True, current + 1).
QUpdate(c) ==
    /\ qpc[c] = "selected"
    /\ UnderCap(qcur[c])
    /\ usage' = UpdateCount(usage, qkey[c])
    /\ qret' = [op |-> "check", key |-> qkey[c], allowed |-> TRUE, count |-> qcur[c] + 1]
    /\ nAllowed' = Bump(nAllowed, qkey[c])
    /\ qpc' = [qpc EXCEPT ![c] = "idle"]
    /\ UNCHANGED <<clockMonth, qkey, qcur, nCalls, notQuotaVars>>

NextQuota ==
    \/ MonthPasses
    \/ \E c \in Callers, id \in Identities : QInsert(c, id)
    \/ \E c \in Callers : QSelect(c)
    \/ \E c \in Callers : QDeny(c)
    \/ \E c \in Callers : QUpdate(c)



\* -- one call at a time: the whole of _check_and_increment_usage.
CheckAndIncrementUsage(id) ==
    /\ nCalls < MaxQuotaCalls
    /\ LET key == <<id, YearMonth(clockMonth)>>
           u1 == InsertIfMissing(usage, key)
           current == SelectCount(u1, key)
       IN IF UnderCap(current)
          THEN /\ usage' = UpdateCount(u1, key)
               /\ qret' = [op |-> "check", key |-> key, allowed |-> TRUE,
                           count |-> current + 1]
               /\ nAllowed' = Bump(nAllowed, key)
          ELSE /\ usage' = u1
               /\ qret' = [op |-> "check", key |-> key, allowed |-> FALSE,
                           count |-> current]
               /\ UNCHANGED nAllowed
    /\ nCalls' = nCalls + 1
    /\ UNCHANGED <<clockMonth, qpc, qkey, qcur, notQuotaVars>>

\* _get_usage_count: SELECT only.
GetUsageCount(id) ==
    /\ LET key == <<id, YearMonth(clockMonth)>> IN
         qret' = [op |-> "get", key |-> key, allowed |-> FALSE,
                  count |-> SelectCount(usage, key)]
    /\ UNCHANGED <<usage, clockMonth, qpc, qkey, qcur, nAllowed, nCalls, notQuotaVars>>

NextQuotaSeq ==
    \/ MonthPasses
    \/ \E id \in Identities : CheckAndIncrementUsage(id)
    \/ \E id \in Identities : GetUsageCount(id)


(***************************************************************************)
(* upsert_scored_book (backend/books_upsert.py), table books               *)
(***************************************************************************)

\* Bounds: calls made one after the other; concurrent on-demand runs.
MaxUpsertCalls == 2
NWorkers == 2

\* (title, author) pairs: the same title under two authors.
Pairs == {<<"Dune", "Herbert">>, <<"Dune", "Anderson">>}

\* Text values of the isbn, synopsis and cover columns are sequences of runs
\* (as context_text above); the empty string '' is the empty sequence, and
\* Python None / SQL NULL is None.
IsbnA == <<Run("1", 10)>>
IsbnB == <<Run("2", 10)>>
Isbn13A == <<Run("9", 13)>>
CoverA == <<Run("a", 40)>>
CoverB == <<Run("b", 40)>>

\* s[:k]
RECURSIVE Take(_, _)
Take(runs, k) ==
    IF runs = <<>> \/ k <= 0 THEN <<>>
    ELSE IF Head(runs).n <= k
         THEN <<Head(runs)>> \o Take(Tail(runs), k - Head(runs).n)
         ELSE <<Run(Head(runs).ch, k)>>

\* Python truthiness of an optional text, and the operator "or".
Truthy(x) == x # None /\ x # Some(<<>>)
PyOr(a, b) == IF Truthy(a) THEN a ELSE b

\* dict.get(key) on the meta dictionary.
MetaGet(meta, key) == IF key \in DOMAIN meta THEN Some(meta[key]) ELSE None

\* SQL COALESCE(a, b) and NULLIF(a, v).
Coalesce(a, b) == IF a # None THEN a ELSE b
NullIf(a, v) == IF a = Some(v) THEN None ELSE a

\* The scores argument: score_book results with scoring_status ok.
ScoreHigh ==
    [scoring_status |-> "ok", overall_score |-> Some(82), confidence |-> 85,
     scores |-> [readability |-> 88, grammar |-> 80, polish |-> 75,
                 prose |-> 79, pacing |-> 81]]
ScoreDefault ==
    [scoring_status |-> "ok", overall_score |-> Some(50), confidence |-> 0,
     scores |-> [d \in Dimensions |-> 50]]
ScoreSamples == {ScoreHigh, ScoreDefault}

\* What a caller passes along with the scores: the isbn of the request, the
\* ctx that fetch_book_context returned for it, and the two arguments both
\* callers derive from that context (official_cw_doc, spice_level).
ContextBare ==
    [isbn |-> None,
     ctx |-> [context_source |-> "description_only",
              ratings_count_estimate |-> 0, review_count |-> 0,
              meta |-> [source |-> "google_books"]],
     official_cw_doc |-> None, spice_level |-> 0]
ContextBlank ==
    [isbn |-> Some(<<>>),
     ctx |-> [context_source |-> "description+ratings",
              ratings_count_estimate |-> 1200, review_count |-> 0,
              meta |-> [description |-> <<>>, thumbnail |-> <<>>,
                        coverUrl |-> <<>>]],
     official_cw_doc |-> None, spice_level |-> 0]
ContextFull ==
    [isbn |-> Some(IsbnA),
     ctx |-> [context_source |-> "description+reviews",
              ratings_count_estimate |-> 0, review_count |-> 6,
              meta |-> [description |-> <<Run("a", 4001)>>,
                        thumbnail |-> CoverB, coverUrl |-> CoverA,
                        isbn13 |-> Isbn13A]],
     official_cw_doc |-> Some("warnings-doc"), spice_level |-> 3]
ContextInputs == {ContextBare, ContextBlank, ContextFull}

UpsertCall(pair, scores, cin, inc) ==
    [title |-> pair[1], author |-> pair[2], isbn |-> cin.isbn, scores |-> scores,
     ctx |-> cin.ctx, official_cw_doc |-> cin.official_cw_doc,
     spice_level |-> cin.spice_level, increment_requested |-> inc]

\* lower() of the names in Pairs.
LowerName(s) ==
    CASE s = "Dune" -> "dune"
      [] s = "Herbert" -> "herbert"
      [] s = "Anderson" -> "anderson"
      [] OTHER -> s

\* _normalize_title_author: the lowered title and author, one space apart.
NormalizeTitleAuthor(title, author) == <<LowerName(title), LowerName(author)>>

ConfidenceLabel(confidence_val) ==
    IF confidence_val >= 70 THEN "high"
    ELSE IF confidence_val >= 40 THEN "medium"
    ELSE "low"

\* lines 106-108
ScoringStatus(scores) ==
    IF scores.scoring_status = "ok" /\ scores.confidence < 40
    THEN "low_confidence"
    ELSE scores.scoring_status

\* lines 84-111 and 163-185: the row the INSERT proposes (SQL "excluded").
Excluded(call, now_iso) ==
    LET meta == call.ctx.meta
        got == MetaGet(meta, "description")
        description == IF Truthy(got) THEN got[1] ELSE <<>>
        cover_url == PyOr(PyOr(MetaGet(meta, "cover_url"),
                               MetaGet(meta, "thumbnail")),
                          MetaGet(meta, "coverUrl"))
        isbn13 == PyOr(MetaGet(meta, "isbn13"), None)
        vote_count_proxy ==
            IF call.ctx.ratings_count_estimate # 0
            THEN call.ctx.ratings_count_estimate
            ELSE call.ctx.review_count
    IN [title |-> call.title, author |-> call.author,
        isbn |-> call.isbn, isbn13 |-> isbn13,
        synopsis |-> IF description # <<>>
                     THEN Some(Take(description, 4000)) ELSE None,
        coverUrl |-> cover_url,
        search_normalized |-> Some(NormalizeTitleAuthor(call.title, call.author)),
        qualityScore |-> call.scores.overall_score,
        technicalQuality |-> call.scores.scores.grammar,
        proseStyle |-> call.scores.scores.prose,
        pacing |-> call.scores.scores.pacing,
        readability |-> call.scores.scores.readability,
        craftExecution |-> call.scores.scores.polish,
        confidenceLevel |-> Some(ConfidenceLabel(call.scores.confidence)),
        voteCount |-> Some(vote_count_proxy),
        spiceLevel |-> call.spice_level,
        officialContentWarnings |-> call.official_cw_doc,
        scoring_status |-> Some(ScoringStatus(call.scores)),
        context_source |-> Some(call.ctx.context_source),
        first_scored_at |-> Some(now_iso),
        last_scored_at |-> Some(now_iso),
        times_requested |-> IF call.increment_requested THEN 1 ELSE 0]

\* id INTEGER PRIMARY KEY AUTOINCREMENT (rows are never deleted).
RECURSIVE MaxId(_)
MaxId(bks) ==
    IF bks = {} THEN 0
    ELSE LET r == CHOOSE x \in bks : TRUE
             m == MaxId(bks \ {r})
         IN IF r.id > m THEN r.id ELSE m

\* The INSERT path: columns outside the column list take their defaults.
InsertedRow(bks, ex) ==
    [id |-> MaxId(bks) + 1,
     title |-> ex.title, author |-> ex.author,
     isbn |-> ex.isbn, isbn13 |-> ex.isbn13,
     synopsis |-> ex.synopsis, coverUrl |-> ex.coverUrl,
     search_normalized |-> ex.search_normalized,
     qualityScore |-> ex.qualityScore,
     technicalQuality |-> ex.technicalQuality,
     proseStyle |-> ex.proseStyle,
     pacing |-> ex.pacing,
     readability |-> ex.readability,
     craftExecution |-> ex.craftExecution,
     confidenceLevel |-> ex.confidenceLevel,
     voteCount |-> ex.voteCount,
     spiceLevel |-> ex.spiceLevel,
     officialContentWarnings |-> ex.officialContentWarnings,
     scoring_status |-> ex.scoring_status,
     context_source |-> ex.context_source,
     scoredDate |-> None,
     first_scored_at |-> ex.first_scored_at,
     last_scored_at |-> ex.last_scored_at,
     times_requested |-> ex.times_requested]

\* A variant that overwrites first_scored_at on every call.
FirstScoredAtOverwritten(stored, proposed) == proposed

\* line 154: COALESCE(books.first_scored_at, excluded.first_scored_at)
FirstScoredAt(stored, proposed) == Coalesce(stored, proposed)

\* A variant that stores the delta instead of adding it.
TimesRequestedOverwritten(stored, delta) == delta

\* line 156: books.times_requested + excluded.times_requested
TimesRequested(stored, delta) == stored + delta

\* lines 137-162: ON CONFLICT(title, author) DO UPDATE SET ...
ConflictUpdate(row, ex) ==
    [row EXCEPT
       !.qualityScore = ex.qualityScore,
       !.technicalQuality = ex.technicalQuality,
       !.proseStyle = ex.proseStyle,
       !.pacing = ex.pacing,
       !.readability = ex.readability,
       !.craftExecution = ex.craftExecution,
       !.confidenceLevel = ex.confidenceLevel,
       !.voteCount = ex.voteCount,
       !.spiceLevel = ex.spiceLevel,
       !.officialContentWarnings = ex.officialContentWarnings,
       !.scoring_status = ex.scoring_status,
       !.context_source = ex.context_source,
       !.scoredDate = ex.last_scored_at,
       !.last_scored_at = ex.last_scored_at,
       !.first_scored_at = FirstScoredAt(row.first_scored_at, ex.first_scored_at),
       !.times_requested = TimesRequested(row.times_requested, ex.times_requested),
       !.synopsis = Coalesce(NullIf(row.synopsis, <<>>), ex.synopsis),
       !.coverUrl = Coalesce(row.coverUrl, ex.coverUrl),
       !.isbn = Coalesce(row.isbn, ex.isbn),
       !.isbn13 = Coalesce(row.isbn13, ex.isbn13),
       !.search_normalized = ex.search_normalized]

\* UNIQUE(title, author): the rows the proposed row conflicts with.
ConflictRows(bks, ex) ==
    {r \in bks : r.title = ex.title /\ r.author = ex.author}

\* lines 115-185: INSERT ... ON CONFLICT(title, author) DO UPDATE
UpsertStatement(bks, call, now_iso) ==
    LET ex == Excluded(call, now_iso)
        hit == ConflictRows(bks, ex)
    IN IF hit = {}
       THEN bks \cup {InsertedRow(bks, ex)}
       ELSE (bks \ hit) \cup {ConflictUpdate(r, ex) : r \in hit}

\* lines 188-191: SELECT id FROM books WHERE title=? AND author=?
SelectId(bks, title, author) ==
    LET hit == {r \in bks : r.title = title /\ r.author = author}
    IN IF hit = {} THEN None ELSE Some((CHOOSE r \in hit : TRUE).id)

RowsFor(bks, pair) == {r \in bks : r.title = pair[1] /\ r.author = pair[2]}

\* A row written by bulk_import, with curated columns filled in by hand.
CuratedSamples ==
    { [isbn |-> None, synopsis |-> None, coverUrl |-> None],
      [isbn |-> Some(<<>>), synopsis |-> Some(<<>>), coverUrl |-> Some(<<>>)],
      [isbn |-> Some(IsbnB), synopsis |-> Some(<<Run("c", 90)>>),
       coverUrl |-> Some(CoverA)] }

ImportedRow(id, pair, cur) ==
    [id |-> id,
     title |-> pair[1], author |-> pair[2],
     isbn |-> cur.isbn, isbn13 |-> None,
     synopsis |-> cur.synopsis, coverUrl |-> cur.coverUrl,
     search_normalized |-> Some(NormalizeTitleAuthor(pair[1], pair[2])),
     qualityScore |-> Some(0),
     technicalQuality |-> 0, proseStyle |-> 0, pacing |-> 0,
     readability |-> 0, craftExecution |-> 0,
     confidenceLevel |-> Some("unknown"),
     voteCount |-> None,
     spiceLevel |-> 0,
     officialContentWarnings |-> None,
     scoring_status |-> None,
     context_source |-> None,
     scoredDate |-> None,
     first_scored_at |-> None,
     last_scored_at |-> None,
     times_requested |-> 0]

\* All calls the model makes.
UpsertCalls ==
    {UpsertCall(p, s, c, b) :
        p \in Pairs, s \in ScoreSamples, c \in ContextInputs, b \in BOOLEAN}

Workers == 1 .. NWorkers

WorkersIdle ==
    /\ wpc = [w \in Workers |-> "start"]
    /\ wcall = [w \in Workers |-> None]
    /\ wnow = [w \in Workers |-> 0]
    /\ lock = None
    /\ pending = {}
    /\ commitOrder = <<>>
    /\ wret = [w \in Workers |-> None]

SequentialIdle ==
    /\ lastCall = None
    /\ nUpserts = 0
    /\ nIncr = [p \in Pairs |-> 0]
    /\ nCallsFor = [p \in Pairs |-> 0]
    /\ upsertRet = None

UpsertIdle ==
    /\ books = {}
    /\ now = 1
    /\ fresh = Pairs
    /\ SequentialIdle
    /\ WorkersIdle

\* The table is empty or holds one imported row.
UpsertInit ==
    /\ books \in {{}} \cup
           {{ImportedRow(1, p, cur)} : p \in Pairs, cur \in CuratedSamples}
    /\ now = 1
    /\ fresh = {p \in Pairs : RowsFor(books, p) = {}}
    /\ SequentialIdle
    /\ WorkersIdle

\* One whole call of upsert_scored_book (lines 83-193) on a connection of
\* its own; the clock has not moved or has moved on since the previous call.
UpsertScoredBook(call) ==
    /\ nUpserts < MaxUpsertCalls
    /\ \E now_iso \in {now, now + 1} :
          /\ now' = now_iso
          /\ books' = UpsertStatement(books, call, now_iso)
          /\ lastCall' = Some([call |-> call, at |-> now_iso])
    /\ nUpserts' = nUpserts + 1
    /\ nIncr' = [nIncr EXCEPT ![<<call.title, call.author>>] =
                    @ + IF call.increment_requested THEN 1 ELSE 0]
    /\ nCallsFor' = [nCallsFor EXCEPT ![<<call.title, call.author>>] = @ + 1]
    /\ upsertRet' = SelectId(books', call.title, call.author)
    /\ UNCHANGED <<fresh, workerVars, notUpsertVars>>

NextUpsert == \E call \in UpsertCalls : UpsertScoredBook(call)

\* -- concurrent on-demand runs (_run_scoring_job, api.py 1145-1160): every
\* worker upserts the same pair on a connection of its own.
ConcPair == <<"Dune", "Herbert">>
OtherPair == <<"Dune", "Anderson">>

\* score_on_demand passes isbn or None; increment_requested is True.
ConcCalls ==
    {UpsertCall(ConcPair, s, c, TRUE) :
        s \in ScoreSamples, c \in {ContextBare, ContextFull}}

\* No row for the pair yet (score_on_demand starts no job for a scored book).
UpsertConcInit ==
    /\ books \in {{}} \cup {{ImportedRow(1, OtherPair, cur)} : cur \in CuratedSamples}
    /\ now = 1
    /\ fresh = {p \in Pairs : RowsFor(books, p) = {}}
    /\ SequentialIdle
    /\ WorkersIdle

\* lines 84-111: the parameters are computed and the clock is read.
WPrepare(w, call) ==
    /\ wpc[w] = "start"
    /\ \E now_iso \in {now, now + 1} :
          /\ now' = now_iso
          /\ wnow' = [wnow EXCEPT ![w] = now_iso]
    /\ wcall' = [wcall EXCEPT ![w] = Some(call)]
    /\ wpc' = [wpc EXCEPT ![w] = "prepared"]
    /\ UNCHANGED <<books, fresh, seqUpsertVars, lock, pending, commitOrder,
                   wret, notUpsertVars>>

\* lines 113-185: the statement runs inside the connection's implicit
\* transaction; SQLite admits one writer, the others wait for the lock.
WExecute(w) ==
    /\ wpc[w] = "prepared"
    /\ lock = None
    /\ lock' = Some(w)
    /\ pending' = UpsertStatement(books, wcall[w][1], wnow[w])
    /\ wpc' = [wpc EXCEPT ![w] = "executed"]
    /\ UNCHANGED <<books, now, fresh, seqUpsertVars, wcall, wnow, commitOrder,
                   wret, notUpsertVars>>

\* line 186: conn.commit()
WCommit(w) ==
    /\ wpc[w] = "executed"
    /\ lock = Some(w)
    /\ books' = pending
    /\ pending' = {}
    /\ lock' = None
    /\ commitOrder' = Append(commitOrder, w)
    /\ wpc' = [wpc EXCEPT ![w] = "committed"]
    /\ UNCHANGED <<now, fresh, seqUpsertVars, wcall, wnow, wret, notUpsertVars>>

\* lines 188-193: the id is read back and returned.
WReturn(w) ==
    /\ wpc[w] = "committed"
    /\ wret' = [wret EXCEPT ![w] = SelectId(books, ConcPair[1], ConcPair[2])]
    /\ wpc' = [wpc EXCEPT ![w] = "done"]
    /\ UNCHANGED <<books, now, fresh, seqUpsertVars, wcall, wnow, lock, pending,
                   commitOrder, notUpsertVars>>

NextUpsertConc ==
    \/ \E w \in Workers, call \in ConcCalls : WPrepare(w, call)
    \/ \E w \in Workers : WExecute(w)
    \/ \E w \in Workers : WCommit(w)
    \/ \E w \in Workers : WReturn(w)


(***************************************************************************)
(* score_on_demand and _run_scoring_job (backend/api.py)                   *)
(*                                                                         *)
(* One request is handled at a time; the worker threads it starts run      *)
(* concurrently with the requests that follow.                             *)
(***************************************************************************)

\* Bound: the number of requests received.
MaxRequests == 2

\* (data.get("title") or "").strip(), on the names of OnDemandBodies.
StripName(s) == IF s = " Dune " THEN "Dune" ELSE s

\* The request bodies: title, author, isbn as posted.
OnDemandBodies ==
    [title : {"Dune", " Dune ", ""}, author : {"Herbert", ""}, isbn : {None}]
    \cup {[title |-> "Dune", author |-> "Anderson", isbn |-> Some(IsbnA)]}

\* A variant of the cache test that takes a stored score of 0 for no score.
IsCachedTruthy(bks, title, author) ==
    \E r \in bks : /\ r.title = title /\ r.author = author
                   /\ r.qualityScore # None /\ r.qualityScore # Some(0)

\* SELECT id, qualityScore FROM books WHERE title=? AND author=?, then
\* existing and existing["qualityScore"] is not None.
IsCached(bks, title, author) ==
    \E r \in bks : /\ r.title = title /\ r.author = author
                   /\ r.qualityScore # None

\* A variant that goes on to create the job whatever the quota call said.
GrantedAlways(q) == q # None

\* allowed, new_count = _check_and_increment_usage(user_key); if not allowed
Granted(q) == q # None /\ q[1].allowed

\* INSERT INTO analytics_events (_log_event; it never raises).
LogEvent(name) ==
    events' = IF name \in DOMAIN events
              THEN [events EXCEPT ![name] = @ + 1]
              ELSE events @@ (name :> 1)

Response(code, status) == Some([code |-> code, status |-> status])

\* What score_book hands to its callers when scoring did not succeed, in the
\* shape upsert_scored_book reads it (absent keys read with their defaults).
ScoreError ==
    [scoring_status |-> "error", overall_score |-> None, confidence |-> 0,
     scores |-> [d \in Dimensions |-> 0]]
ScoreUnavailable ==
    [scoring_status |-> "temporarily_unavailable", overall_score |-> None,
     confidence |-> 0, scores |-> [d \in Dimensions |-> 0]]
ScoreOutcomes == {ScoreHigh, ScoreError, ScoreUnavailable}

\* json.dumps of a result: a dict with string keys whose values are numbers,
\* strings, null and lists; the text is kept as a tagged value.
JsonDumps(v) == <<"json", v>>

\* A variant that leaves the column error_message as it was.
UpdateOnDemandJobStatusNoMessage(tbl, job_id, status, result, error_message) ==
    [tbl EXCEPT ![job_id] =
        [@ EXCEPT !.status = status,
                  !.result_json =
                      Coalesce(IF result = None THEN None
                               ELSE Some(JsonDumps(result[1])), @)]]

\* jobs.py, lines 109-141: UPDATE on_demand_jobs SET status = ?,
\* result_json = COALESCE(?, result_json),
\* error_message = COALESCE(?, error_message) WHERE id = ?
UpdateOnDemandJobStatus(tbl, job_id, status, result, error_message) ==
    [tbl EXCEPT ![job_id] =
        [@ EXCEPT !.status = status,
                  !.result_json =
                      Coalesce(IF result = None THEN None
                               ELSE Some(JsonDumps(result[1])), @),
                  !.error_message = Coalesce(error_message, @)]]

\* The worker of a job: where it is inside _run_scoring_job, and its locals
\* scores and book_id once upsert_scored_book has returned.
WorkerLocals(pc, scores, book_id) ==
    [pc |-> pc, scores |-> scores, book_id |-> book_id]

\* A variant that also lets a temporarily_unavailable result through.
ScoredOkLoose(scores) == scores.scoring_status # "error"

\* api.py, lines 1098 and 1106: the two status checks after score_book.
ScoredOk(scores) ==
    scores.scoring_status \notin {"error", "temporarily_unavailable"}

\* api.py, lines 1098-1107: the error_message of a job whose scoring failed.
\* A result with status error carries its first flag.
FailureMessages(scores) ==
    IF scores.scoring_status = "error"
    THEN {"LLM request failed"}
    ELSE {"Scoring is temporarily busy, please try again in a few minutes."}

\* books_upsert.py, lines 83-197: the statement, the commit and the SELECT of
\* the id run inside try; any exception is logged and None is returned, and
\* the connection is closed without a commit.
UpsertOutcome(bks, call, now_iso, fails) ==
    IF fails
    THEN [books |-> bks, ret |-> None]
    ELSE LET written == UpsertStatement(bks, call, now_iso)
         IN [books |-> written,
             ret |-> SelectId(written, call.title, call.author)]

\* A variant that fails the job when the upsert returned None.
JobEndStatusStrict(book_id) == IF book_id = None THEN "failed" ELSE "completed"

\* api.py, lines 1161-1168: with or without a book_id the job is completed.
JobEndStatus(book_id) == "completed"

\* batch_score.py, lines 197-210: error, temporarily_unavailable and a missing
\* overall_score all return before the upsert.
BatchStores(scores) ==
    /\ scores.scoring_status \notin {"error", "temporarily_unavailable"}
    /\ scores.overall_score # None

\* str(e) of an exception caught at line 1179; it may be the empty string.
ExceptionTexts == {""}

\* The number of books the batch scorer is run for.
MaxBatchRuns == 1

HandlerIdle ==
    /\ hpc = "idle"
    /\ hreq = None
    /\ hquota = None
    /\ hresp = None
    /\ nRequests = 0

OnDemandIdle ==
    /\ jobs = <<>>
    /\ threads = {}
    /\ jobCalls = <<>>
    /\ jwork = <<>>
    /\ batch = <<>>
    /\ events = <<>>
    /\ HandlerIdle

\* The requester has used nothing, or is one request below or at the cap;
\* the table books is empty or holds one row for Dune by Herbert: imported
\* (score 0), scored on demand, or with a NULL qualityScore.
OnDemandInit ==
    /\ usage \in {<<>>} \cup
           {(<<"u:7", YearMonth(11)>> :> n) :
               n \in {ON_DEMAND_MONTHLY_CAP - 1, ON_DEMAND_MONTHLY_CAP}}
    /\ clockMonth = 11
    /\ qpc = [c \in Callers |-> "idle"]
    /\ qkey = [c \in Callers |-> <<"", <<0, 0>>>>]
    /\ qcur = [c \in Callers |-> 0]
    /\ qret = NoRet
    /\ nAllowed = [k \in {} |-> 0]
    /\ nCalls = 0
    /\ LET imported ==
               ImportedRow(1, ConcPair,
                           [isbn |-> None, synopsis |-> None, coverUrl |-> None])
       IN books \in {{}, {imported},
                     {[imported EXCEPT !.qualityScore = None]},
                     UpsertStatement({}, UpsertCall(ConcPair, ScoreHigh,
                                                    ContextBare, TRUE), 1)}
    /\ now = 1
    /\ fresh = {p \in Pairs : RowsFor(books, p) = {}}
    /\ SequentialIdle
    /\ WorkersIdle
    /\ OnDemandIdle

\* Lines 1221-1237: a request without title or author is answered 400.
RejectRequest(body) ==
    /\ hpc = "idle"
    /\ nRequests < MaxRequests
    /\ StripName(body.title) = "" \/ StripName(body.author) = ""
    /\ nRequests' = nRequests + 1
    /\ hresp' = Response(400, "validation_error")
    /\ UNCHANGED <<hpc, hreq, hquota, jobs, threads, jobCalls, jwork, batch, events,
                   usage, books, now, notOnDemandVars>>

\* Lines 1221-1240: the fields are stripped and the identity key derived.
AcceptRequest(body, id) ==
    /\ hpc = "idle"
    /\ nRequests < MaxRequests
    /\ StripName(body.title) # "" /\ StripName(body.author) # ""
    /\ nRequests' = nRequests + 1
    /\ hreq' = Some([title |-> StripName(body.title),
                     author |-> StripName(body.author),
                     isbn |-> body.isbn, user_key |-> id])
    /\ hquota' = None
    /\ hpc' = "lookup"
    /\ UNCHANGED <<hresp, jobs, threads, jobCalls, jwork, batch, events,
                   usage, books, now, notOnDemandVars>>

\* Lines 1242-1260: the book is in the table with a score.
CacheHit ==
    /\ hpc = "lookup"
    /\ IsCached(books, hreq[1].title, hreq[1].author)
    /\ LogEvent("on_demand_cache_hit")
    /\ hresp' = Response(200, "already_scored")
    /\ hpc' = "idle"
    /\ UNCHANGED <<hreq, hquota, nRequests, jobs, threads, jobCalls, jwork, batch,
                   usage, books, now, notOnDemandVars>>

CacheMiss ==
    /\ hpc = "lookup"
    /\ ~IsCached(books, hreq[1].title, hreq[1].author)
    /\ hpc' = "quota"
    /\ UNCHANGED <<hreq, hquota, hresp, nRequests, jobs, threads, jobCalls, jwork, batch,
                   events, usage, books, now, notOnDemandVars>>

\* Line 1263: one whole call of _check_and_increment_usage(user_key).
CheckQuota ==
    /\ hpc = "quota"
    /\ LET key == <<hreq[1].user_key, YearMonth(clockMonth)>>
           u1 == InsertIfMissing(usage, key)
           current == SelectCount(u1, key)
       IN IF UnderCap(current)
          THEN /\ usage' = UpdateCount(u1, key)
               /\ hquota' = Some([key |-> hreq[1].user_key, allowed |-> TRUE,
                                  count |-> current + 1])
          ELSE /\ usage' = u1
               /\ hquota' = Some([key |-> hreq[1].user_key, allowed |-> FALSE,
                                  count |-> current])
    /\ hpc' = "checked"
    /\ UNCHANGED <<hreq, hresp, nRequests, jobs, threads, jobCalls, jwork, batch, events,
                   books, now, notOnDemandVars>>

\* Lines 1264-1275: if not allowed, 429 cap_reached.
CapReached ==
    /\ hpc = "checked"
    /\ ~Granted(hquota)
    /\ LogEvent("on_demand_cap_hit")
    /\ hresp' = Response(429, "cap_reached")
    /\ hpc' = "idle"
    /\ UNCHANGED <<hreq, hquota, nRequests, jobs, threads, jobCalls, jwork, batch,
                   usage, books, now, notOnDemandVars>>

\* Lines 1277-1282 and jobs.py create_on_demand_job: a row with a new id
\* (uuid4) and status queued.
CreateJob ==
    /\ hpc = "checked"
    /\ Granted(hquota)
    /\ LET job_id == Len(jobs) + 1
       IN /\ jobs' = Append(jobs, [status |-> "queued",
                                   title |-> hreq[1].title,
                                   author |-> hreq[1].author,
                                   isbn |-> hreq[1].isbn,
                                   result_json |-> None,
                                   error_message |-> None])
          /\ jobCalls' = Append(jobCalls, 0)
          /\ jwork' = Append(jwork, WorkerLocals("start", None, None))
    /\ LogEvent("on_demand_requested")
    /\ hpc' = "created"
    /\ UNCHANGED <<hreq, hquota, hresp, nRequests, threads, batch,
                   usage, books, now, notOnDemandVars>>

\* Lines 1284-1296: the worker thread is started, the answer is 202.
StartWorker ==
    /\ hpc = "created"
    /\ threads' = threads \cup {Len(jobs)}
    /\ hresp' = Response(202, "queued")
    /\ hpc' = "idle"
    /\ UNCHANGED <<hreq, hquota, nRequests, jobs, jobCalls, jwork, batch,
                   events, usage, books, now, notOnDemandVars>>

\* _run_scoring_job, line 1059: status running.
JobStarts(j) ==
    /\ j \in threads
    /\ jwork[j].pc = "start"
    /\ jobs' = UpdateOnDemandJobStatus(jobs, j, "running", None, None)
    /\ jwork' = [jwork EXCEPT ![j].pc = "running"]
    /\ UNCHANGED <<threads, jobCalls, batch, events, handlerVars, usage, books,
                   now, notOnDemandVars>>

\* Lines 1062-1076: fetch_book_context calls the adapters and returns.
JobFetchContext(j) ==
    /\ j \in threads
    /\ jwork[j].pc = "running"
    /\ jobCalls' = [jobCalls EXCEPT ![j] = 1]
    /\ jwork' = [jwork EXCEPT ![j].pc = "context"]
    /\ UNCHANGED <<jobs, threads, batch, events, handlerVars, usage, books,
                   now, notOnDemandVars>>

\* A variant that returns on an empty context without touching the job row.
JobNoContextSilent(j) ==
    /\ j \in threads
    /\ jwork[j].pc = "context"
    /\ jwork' = [jwork EXCEPT ![j].pc = "done"]
    /\ LogEvent("on_demand_failed")
    /\ UNCHANGED <<jobs, threads, jobCalls, batch, handlerVars, usage, books,
                   now, notOnDemandVars>>

\* Lines 1078-1084: an empty context fails the job before any LLM call.
JobNoContext(j) ==
    /\ j \in threads
    /\ jwork[j].pc = "context"
    /\ jobs' = UpdateOnDemandJobStatus(
                   jobs, j, "failed", None,
                   Some("No context available from data sources"))
    /\ jwork' = [jwork EXCEPT ![j].pc = "done"]
    /\ LogEvent("on_demand_failed")
    /\ UNCHANGED <<threads, jobCalls, batch, handlerVars, usage, books, now,
                   notOnDemandVars>>

\* Lines 1086-1112: score_book is called and returns error or
\* temporarily_unavailable; the job fails and the worker returns.
JobScoringFails(j, scores, error_msg) ==
    /\ j \in threads
    /\ jwork[j].pc = "context"
    /\ ~ScoredOk(scores)
    /\ error_msg \in FailureMessages(scores)
    /\ jobCalls' = [jobCalls EXCEPT ![j] = 2]
    /\ jobs' = UpdateOnDemandJobStatus(jobs, j, "failed", None, Some(error_msg))
    /\ jwork' = [jwork EXCEPT ![j].pc = "done"]
    /\ LogEvent(IF scores.scoring_status = "error"
                THEN "on_demand_failed" ELSE "on_demand_rate_limited")
    /\ UNCHANGED <<threads, batch, handlerVars, usage, books, now,
                   notOnDemandVars>>

\* Lines 1179-1183: an exception raised after line 1059 and before the upsert
\* (by fetch_book_context, score_book or the extraction of spice level and
\* content warnings) fails the job with str(e), which may be empty.
JobRaises(j, error_msg) ==
    /\ j \in threads
    /\ jwork[j].pc \in {"running", "context"}
    /\ jobs' = UpdateOnDemandJobStatus(jobs, j, "failed", None, Some(error_msg))
    /\ jwork' = [jwork EXCEPT ![j].pc = "done"]
    /\ LogEvent("on_demand_failed")
    /\ UNCHANGED <<threads, jobCalls, batch, handlerVars, usage, books, now,
                   notOnDemandVars>>

\* Lines 1086-1165: score_book returned a result that passed both status
\* checks, extract_content_warnings_llm was called, and upsert_scored_book
\* ran with increment_requested = True, at a later time than the writes
\* before it; book_id is what it returned.
JobUpserts(j, scores, cin, fails) ==
    /\ j \in threads
    /\ jwork[j].pc = "context"
    /\ ScoredOk(scores)
    /\ jobCalls' = [jobCalls EXCEPT ![j] = 3]
    /\ LET call == [UpsertCall(<<jobs[j].title, jobs[j].author>>, scores, cin,
                               TRUE) EXCEPT !.isbn = jobs[j].isbn]
           now_iso == now + 1
           out == UpsertOutcome(books, call, now_iso, fails)
       IN /\ now' = now_iso
          /\ books' = out.books
          /\ jwork' = [jwork EXCEPT ![j] =
                          WorkerLocals("upserted", Some(scores), out.ret)]
    /\ UNCHANGED <<jobs, threads, batch, events, handlerVars, usage,
                   notOnDemandVars>>

\* Lines 1161-1177: scores["book_id"] is set when book_id is truthy, the job
\* is completed with result = scores, and the event is logged.
JobCompletes(j) ==
    /\ j \in threads
    /\ jwork[j].pc = "upserted"
    /\ LET result == [scores |-> jwork[j].scores[1],
                      book_id |-> jwork[j].book_id]
           status == JobEndStatus(jwork[j].book_id)
       IN jobs' = UpdateOnDemandJobStatus(
                      jobs, j, status,
                      IF status = "completed" THEN Some(result) ELSE None,
                      IF status = "completed" THEN None
                      ELSE Some("books upsert returned None"))
    /\ jwork' = [jwork EXCEPT ![j].pc = "done"]
    /\ LogEvent("on_demand_completed")
    /\ UNCHANGED <<threads, jobCalls, batch, handlerVars, usage, books, now,
                   notOnDemandVars>>

\* batch_score.py score_single_book, lines 146-289: the context is fetched,
\* score_book is called, and only a result that passes the checks of lines
\* 197-210 is handed to upsert_scored_book, with increment_requested = False;
\* what the upsert returns is ignored.
ScoreSingleBook(pair, scores, fails) ==
    /\ Len(batch) < MaxBatchRuns
    /\ \E now_iso \in {now, now + 1} :
          LET call == UpsertCall(pair, scores, ContextBare, FALSE)
              stores == BatchStores(scores)
              out == IF stores
                     THEN UpsertOutcome(books, call, now_iso, fails)
                     ELSE [books |-> books, ret |-> None]
          IN /\ now' = IF stores THEN now_iso ELSE now
             /\ books' = out.books
             /\ batch' = Append(batch,
                                [title |-> pair[1], author |-> pair[2],
                                 scoring_status |-> scores.scoring_status,
                                 upserted |-> stores,
                                 returned |-> stores])
    /\ UNCHANGED <<jobs, threads, jobCalls, jwork, events, handlerVars, usage,
                   notOnDemandVars>>

\* The steps of the worker thread of job j.
WorkerStep(j) ==
    \/ JobStarts(j)
    \/ JobFetchContext(j)
    \/ JobNoContext(j)
    \/ \E scores \in ScoreOutcomes :
          \E error_msg \in FailureMessages(scores) :
             JobScoringFails(j, scores, error_msg)
    \/ \E error_msg \in ExceptionTexts : JobRaises(j, error_msg)
    \/ \E scores \in ScoreOutcomes, fails \in BOOLEAN :
          JobUpserts(j, scores, ContextBare, fails)
    \/ JobCompletes(j)

NextOnDemand ==
    \/ \E body \in OnDemandBodies : RejectRequest(body)
    \/ \E body \in OnDemandBodies, id \in Identities : AcceptRequest(body, id)
    \/ CacheHit
    \/ CacheMiss
    \/ CheckQuota
    \/ CapReached
    \/ CreateJob
    \/ StartWorker
    \/ \E j \in DOMAIN jobs : JobStarts(j)
    \/ \E j \in DOMAIN jobs : JobFetchContext(j)
    \/ \E j \in DOMAIN jobs : JobNoContext(j)
    \/ \E j \in DOMAIN jobs, scores \in ScoreOutcomes :
          \E error_msg \in FailureMessages(scores) :
             JobScoringFails(j, scores, error_msg)
    \/ \E j \in DOMAIN jobs, error_msg \in ExceptionTexts :
          JobRaises(j, error_msg)
    \/ \E j \in DOMAIN jobs, scores \in ScoreOutcomes, fails \in BOOLEAN :
          JobUpserts(j, scores, ContextBare, fails)
    \/ \E j \in DOMAIN jobs : JobCompletes(j)

\* The web application and the batch scorer run against the same database.
BatchRun ==
    \E scores \in ScoreOutcomes, fails \in BOOLEAN :
       ScoreSingleBook(ConcPair, scores, fails)

NextCache == NextOnDemand \/ BatchRun

(***************************************************************************)
(* fetch_book_context and build_context_text (backend/book_context.py)     *)
(***************************************************************************)

\* A review text, by what the filter reads of it: its length (stripped), the
\* position where its first quality keyword ends (0: it holds none), the
\* number of characters text[:600].rsplit(" ", 1)[0] keeps of it (600: no
\* blank among the first 600; it is stripped, so never 0), its first
\* characters, and whether it has been cut.
ReviewText(len, term, cut, prefix) ==
    [len |-> len, term |-> term, cut |-> cut, prefix |-> prefix,
     truncated |-> FALSE]

\* What a call of fetch_hardcover_book, fetch_google_book or
\* fetch_open_library can do: raise, return None, or return a record.  A
\* review is the text of a Hardcover review (stripped, longer than 30
\* characters): its length, whether it holds a quality keyword, and its first
\* 60 characters in lower case.  Ratings are whole numbers.
AdapterOutcomes(adapter) ==
    LET Review(n, rel, pre) ==
            ReviewText(n, IF rel THEN 20 ELSE 0, 600, <<pre>>)
        Returned(rec) == [raised |-> FALSE, value |-> Some(rec)]
        Hardcover(desc, revs, avg, cnt) ==
            Returned([description |-> desc, reviews |-> revs,
                      genres |-> <<"Romance">>,
                      average_rating |-> avg, ratings_count |-> cnt])
        Google(desc, avg, cnt) ==
            Returned([description |-> Some(desc), categories |-> <<"Fiction">>,
                      average_rating |-> avg, ratings_count |-> cnt])
        OpenLibrary(avg, cnt) ==
            Returned([ratings_average |-> avg, ratings_count |-> cnt,
                      already_read_count |-> cnt, want_to_read_count |-> None])
        records ==
            CASE adapter = "hardcover" ->
                   { Hardcover(Some(<<Run(" ", 1), Run("h", 40)>>), <<>>,
                               None, None),
                     Hardcover(None, <<>>, Some(0), Some(0)),
                     Hardcover(None, <<Review(80, TRUE, "a"),
                                       Review(80, FALSE, "b")>>,
                               Some(4), Some(120)),
                     Hardcover(Some(<<>>), <<Review(40, TRUE, "c")>>,
                               None, None),
                     Hardcover(Some(<<Run("h", 40)>>),
                               <<Review(80, TRUE, "a"), Review(90, TRUE, "a"),
                                 Review(700, TRUE, "c"), Review(50, TRUE, "d"),
                                 Review(51, FALSE, "b")>>,
                               Some(4), None) }
              [] adapter = "google" ->
                   { Google(<<Run("g", 30)>>, Some(4), None),
                     Google(<<Run("g", 30)>>, None, None),
                     Google(<<>>, None, Some(30)) }
              [] OTHER ->
                   { OpenLibrary(Some(0), Some(0)),
                     OpenLibrary(None, None),
                     OpenLibrary(Some(4), Some(55)) }
    IN {[raised |-> TRUE, value |-> None], [raised |-> FALSE, value |-> None]}
       \cup records

\* Line 302: not hc or (not hc.get("description") and not hc.get("reviews"))
NeedsFallback(h) ==
    h = None \/ (~Truthy(h[1].description) /\ h[1].reviews = <<>>)

\* str.lower(), for the letters the samples hold in upper case.
LowerStr(s) ==
    [i \in 1 .. Len(s) |->
        CASE s[i] = "A" -> "a" [] s[i] = "D" -> "d" [] s[i] = "J" -> "j"
          [] s[i] = "L" -> "l" [] s[i] = "M" -> "m" [] s[i] = "S" -> "s"
          [] OTHER -> s[i]]

\* _is_quality_relevant, lines 45-48: some keyword occurs in the text.
IsQualityRelevant(r) == r.term # 0

\* Lines 73-74 and 352-353: text[:600].rsplit(" ", 1)[0] + "..." for a text
\* longer than 600; a keyword after the cut is lost.
Truncate(r) ==
    IF r.len > 600
    THEN [r EXCEPT !.len = r.cut + 3,
                   !.term = IF r.term <= r.cut THEN r.term ELSE 0,
                   !.truncated = TRUE]
    ELSE r

\* text[:60].lower(): the first characters in lower case, as far as the text
\* goes; a text cut before its 60th character ends in the dots there.
PrefixKey(r) ==
    [text |-> LowerStr(r.prefix),
     kept |-> IF r.truncated /\ r.cut < 60 THEN r.cut
              ELSE IF r.len < 60 THEN r.len ELSE 60]

\* _filter_quality_excerpts, lines 51-86 (the reviews arrive stripped): texts
\* of at least min_length = 50 characters that hold a quality keyword, cut
\* when longer than max_length = 600, one per prefix of the cut text, at
\* most max_excerpts = 80.
FilterQualityExcerpts(reviews) ==
    LET Seen(ex) == {PrefixKey(ex[i]) : i \in 1 .. Len(ex)}
        RECURSIVE Keep(_, _)
        Keep(excerpts, i) ==
            IF i > Len(reviews) \/ Len(excerpts) >= 80 THEN excerpts
            ELSE LET r == reviews[i]
                 IN IF \/ r.len < 50
                       \/ ~IsQualityRelevant(r)
                       \/ PrefixKey(Truncate(r)) \in Seen(excerpts)
                    THEN Keep(excerpts, i + 1)
                    ELSE Keep(Append(excerpts, Truncate(r)), i + 1)
    IN Keep(<<>>, 1)

\* Line 351: len(text) > 50
LongEnough(r) == r.len > 50

\* Lines 339-358: with fewer than 3 quality excerpts and some review, every
\* review that is long enough and whose prefix (of the uncut text) is new is
\* added, cut, until there are 30 excerpts.
QualityExcerpts(reviews) ==
    LET quality == FilterQualityExcerpts(reviews)
        RECURSIVE Add(_, _, _)
        Add(excerpts, seen, i) ==
            IF i > Len(reviews) \/ Len(excerpts) >= 30 THEN excerpts
            ELSE LET r == reviews[i]
                 IN IF PrefixKey(r) \in seen \/ ~LongEnough(r)
                    THEN Add(excerpts, seen, i + 1)
                    ELSE Add(Append(excerpts, Truncate(r)),
                             seen \cup {PrefixKey(r)}, i + 1)
    IN IF Len(quality) < 3 /\ Len(reviews) > 0
       THEN Add(quality, {PrefixKey(quality[k]) : k \in 1 .. Len(quality)}, 1)
       ELSE quality

\* One part of the context text: a heading and what follows it.
Part(label, body) == [label |-> label, body |-> body]

\* build_context_text: the parts, in order, before they are joined.  A record
\* returned by an adapter is a non-empty dict, hence true.
BuildContextText(hardcover_data, google_data, open_library_data, excerpts) ==
    LET IfSeq(c, s) == IF c THEN s ELSE <<>>
        Number(x) == x # None /\ x[1] # 0
        primary ==
            IF hardcover_data # None
            THEN LET d == hardcover_data[1]
                 IN IfSeq(Truthy(d.description),
                          <<Part("Book Description (Hardcover)",
                                 Strip(d.description[1]))>>)
                    \o IfSeq(d.genres # <<>>, <<Part("Genres", d.genres)>>)
                    \o IfSeq(Number(d.average_rating),
                             <<Part("Community Rating", d.average_rating)>>)
            ELSE IF google_data # None
            THEN LET d == google_data[1]
                 IN IfSeq(Truthy(d.description),
                          <<Part("Book Description (Google Books)",
                                 d.description[1])>>)
                    \o IfSeq(d.categories # <<>>,
                             <<Part("Categories", d.categories)>>)
            ELSE <<>>
        supplement ==
            IF open_library_data # None
            THEN LET d == open_library_data[1]
                 IN IfSeq(\/ d.ratings_average # None
                          \/ d.already_read_count # None
                          \/ d.want_to_read_count # None,
                          <<Part("Open Library", d)>>)
            ELSE <<>>
    IN <<Part("Title", <<>>), Part("Author", <<>>)>>
       \o primary \o supplement
       \o <<IF excerpts # <<>>
            THEN Part("Reader Reviews", excerpts)
            ELSE Part("No reader reviews available", <<>>)>>

\* A variant that takes only a positive ratings count for a rating signal.
HasRatingsCountOnly(ratings_count_estimate, average_rating) ==
    ratings_count_estimate > 0

\* Line 408: ratings_count_estimate > 0 or average_rating is not None
HasRatings(ratings_count_estimate, average_rating) ==
    ratings_count_estimate > 0 \/ average_rating # None

\* Steps 4-8 of fetch_book_context (lines 328-440): the Context returned.
AssembleContext(h, g, o) ==
    LET NumOr(a, b) == IF a # None /\ a[1] # 0 THEN a ELSE b
        Field(x, f) == IF x # None THEN x[1][f] ELSE None
        all_review_texts == IF h # None THEN h[1].reviews ELSE <<>>
        quality_excerpts == QualityExcerpts(all_review_texts)
        description ==
            IF h # None /\ Truthy(h[1].description) THEN h[1].description[1]
            ELSE IF g # None /\ Truthy(g[1].description)
            THEN g[1].description[1]
            ELSE <<>>
        source == IF h # None THEN "hardcover"
                  ELSE IF g # None THEN "google"
                  ELSE IF o # None THEN "open_library"
                  ELSE "none"
        ratings_count == NumOr(NumOr(Field(h, "ratings_count"),
                                     Field(g, "ratings_count")),
                               Field(o, "ratings_count"))
        ratings_count_estimate ==
            IF ratings_count # None THEN ratings_count[1] ELSE 0
        average_rating == NumOr(NumOr(Field(h, "average_rating"),
                                      Field(g, "average_rating")),
                                Field(o, "ratings_average"))
        excerpt_count == Len(quality_excerpts)
    IN [context_text |-> BuildContextText(h, g, o, quality_excerpts),
        quality_excerpts |-> quality_excerpts,
        review_count |-> Len(all_review_texts),
        excerpt_count |-> excerpt_count,
        context_source |->
            IF excerpt_count > 0 THEN "description+reviews"
            ELSE IF HasRatings(ratings_count_estimate, average_rating)
            THEN "description+ratings"
            ELSE "description_only",
        ratings_count_estimate |-> ratings_count_estimate,
        meta |-> [source |-> source,
                  average_rating |-> average_rating,
                  ratings_count |-> IF ratings_count_estimate # 0
                                    THEN Some(ratings_count_estimate)
                                    ELSE None,
                  description_length |-> TextLen(description),
                  open_library |-> o]]

\* What the log keeps of a call.
Logged(adapter, outcome) ==
    <<adapter, IF outcome.raised THEN "raised"
               ELSE IF outcome.value = None THEN "none" ELSE "record">>

\* Step 1 (lines 288-298): a call that raises leaves hc = None.
CallHardcover(outcome) ==
    /\ cpc = "hardcover"
    /\ hc' = outcome.value
    /\ adapterLog' = Append(adapterLog, Logged("hardcover", outcome))
    /\ cpc' = IF NeedsFallback(hc') THEN "google" ELSE "open_library"
    /\ UNCHANGED <<google, open_library, ctxOut, notContextVars>>

\* Step 2 (lines 300-311).
CallGoogle(outcome) ==
    /\ cpc = "google"
    /\ google' = outcome.value
    /\ adapterLog' = Append(adapterLog, Logged("google", outcome))
    /\ cpc' = "open_library"
    /\ UNCHANGED <<hc, open_library, ctxOut, notContextVars>>

\* Step 3 (lines 313-326): no condition precedes this call.
CallOpenLibrary(outcome) ==
    /\ cpc = "open_library"
    /\ open_library' = outcome.value
    /\ adapterLog' = Append(adapterLog, Logged("open_library", outcome))
    /\ cpc' = "assemble"
    /\ UNCHANGED <<hc, google, ctxOut, notContextVars>>

\* Steps 4-8 and the return.
ReturnContext ==
    /\ cpc = "assemble"
    /\ ctxOut' = Some(AssembleContext(hc, google, open_library))
    /\ cpc' = "returned"
    /\ UNCHANGED <<hc, google, open_library, adapterLog, notContextVars>>

NextContext ==
    \/ \E outcome \in AdapterOutcomes("hardcover") : CallHardcover(outcome)
    \/ \E outcome \in AdapterOutcomes("google") : CallGoogle(outcome)
    \/ \E outcome \in AdapterOutcomes("open_library") : CallOpenLibrary(outcome)
    \/ ReturnContext

(***************************************************************************)
(* fetch_google_book (backend/google_books_client.py) and                  *)
(* fetch_hardcover_book (backend/hardcover_client.py): the choice of the   *)
(* candidate.  A string is the sequence of its characters.                 *)
(***************************************************************************)

\* Bound: the number of candidates a search returns.
MaxCandidates == 2

\* str.strip()
StripStr(s) ==
    LET solid == {i \in 1 .. Len(s) : s[i] # " "}
    IN IF solid = {} THEN <<>>
       ELSE SubSeq(s, CHOOSE i \in solid : \A j \in solid : i <= j,
                      CHOOSE i \in solid : \A j \in solid : i >= j)

\* a in b, on strings
IsSubstr(a, b) ==
    \E i \in 0 .. Len(b) - Len(a) : SubSeq(b, i + 1, i + Len(a)) = a

\* s.split(sep): the pieces between the separators, as a set; the pieces
\* that are empty are kept.
SplitOn(s, sep) ==
    LET cuts == {i \in 1 .. Len(s) : s[i] = sep} \cup {0, Len(s) + 1}
    IN {SubSeq(s, i + 1, j - 1) :
           <<i, j>> \in {p \in cuts \X cuts :
                            /\ p[1] < p[2]
                            /\ \A k \in cuts : ~(p[1] < k /\ k < p[2])}}

\* s.split()[-1] for a stripped, non-empty s: what follows the last blank.
LastWord(s) ==
    LET blanks == {i \in 1 .. Len(s) : s[i] = " "}
    IN IF blanks = {} THEN s
       ELSE SubSeq(s, (CHOOSE i \in blanks : \A j \in blanks : i >= j) + 1,
                   Len(s))

\* " ".join(a.lower() for a in authors)
RECURSIVE JoinLower(_)
JoinLower(authors) ==
    IF authors = <<>> THEN <<>>
    ELSE IF Len(authors) = 1 THEN LowerStr(authors[1])
    ELSE LowerStr(authors[1]) \o <<" ">> \o JoinLower(Tail(authors))

\* re.search(r"\b" + re.escape(w) + r"\b", s): w occurs in s with a word
\* boundary on either side (a word character next to a non-word character
\* or to an end of s).
WordSearch(w, s) ==
    LET IsWord(p) == p >= 1 /\ p <= Len(s) /\ s[p] \notin {" ", ",", ".", "-"}
        Boundary(p) == IsWord(p) # IsWord(p + 1)
    IN \E i \in 0 .. Len(s) - Len(w) :
          /\ SubSeq(s, i + 1, i + Len(w)) = w
          /\ Boundary(i)
          /\ Boundary(i + Len(w))

\* _author_matches: (matched, score_bonus)
AuthorMatches(author_lower, author_last, item_authors_joined) ==
    IF author_lower = <<>> THEN [matched |-> FALSE, bonus |-> 0]
    ELSE IF \E piece \in SplitOn(item_authors_joined, ",") :
               LET part == StripStr(piece)
               IN IsSubstr(author_lower, part) \/ IsSubstr(part, author_lower)
    THEN [matched |-> TRUE, bonus |-> 3]
    ELSE IF author_last # <<>> /\ WordSearch(author_last, item_authors_joined)
    THEN [matched |-> TRUE, bonus |-> 2]
    ELSE [matched |-> FALSE, bonus |-> 0]

\* fetch_google_book, lines 143-217, on the items the search returned: the
\* scores are in thousandths, best is the first item with the highest score.
FetchGoogleBook(title, author, items) ==
    LET title_lower == StripStr(LowerStr(title))
        author_lower == StripStr(LowerStr(author))
        author_last == IF author_lower # <<>> THEN LastWord(author_lower)
                       ELSE <<>>
        Matched(item) ==
            AuthorMatches(author_lower, author_last, JoinLower(item.authors))
        Score(item) ==
            LET item_title == LowerStr(item.title)
                ratings == IF item.ratingsCount = None THEN 0
                           ELSE item.ratingsCount[1]
            IN 1000 * ((IF title_lower # <<>> /\ title_lower = item_title
                        THEN 3
                        ELSE IF title_lower # <<>>
                                /\ IsSubstr(title_lower, item_title) THEN 2
                        ELSE IF title_lower # <<>>
                                /\ IsSubstr(item_title, title_lower) THEN 1
                        ELSE 0)
                       + (IF author_lower # <<>> THEN Matched(item).bonus
                          ELSE 0)
                       + (IF item.description THEN 1 ELSE 0))
               + (IF ratings < 1000 THEN ratings ELSE 1000)
    IN IF items = <<>> THEN None
       ELSE LET i == CHOOSE k \in 1 .. Len(items) :
                        /\ \A j \in 1 .. Len(items) :
                              Score(items[j]) <= Score(items[k])
                        /\ \A j \in 1 .. k - 1 :
                              Score(items[j]) < Score(items[k])
            IN IF author_lower # <<>> /\ ~Matched(items[i]).matched
               THEN None
               ELSE Some(items[i])

\* fetch_hardcover_book, lines 402-433, with HARDCOVER_API_KEY set: the
\* first candidate, or the first one whose authors hold the last name.
FetchHardcoverBook(title, author, candidates) ==
    IF title = <<>> \/ candidates = <<>> THEN None
    ELSE IF StripStr(author) = <<>> THEN Some(candidates[1])
    ELSE LET author_last == LastWord(LowerStr(StripStr(author)))
             hits == {k \in 1 .. Len(candidates) :
                         WordSearch(author_last,
                                    JoinLower(candidates[k].authors))}
         IN IF hits = {} THEN Some(candidates[1])
            ELSE Some(candidates[CHOOSE k \in hits : \A j \in hits : k <= j])

\* The query for Dune by nobody, by Jane Smith or by Smith, and the
\* candidates the search returns.
AdapterArgs ==
    LET Candidate(t, as, d, n) ==
            [title |-> t, authors |-> as, description |-> d, ratingsCount |-> n]
        found ==
            { Candidate(<<"D", "u", "n", "e">>, <<<<"S", "m", "i", "t", "h", "s", "o", "n">>>>, TRUE, Some(2000)),
              Candidate(<<"D", "u", "n", "e">>, <<>>, TRUE, None),
              Candidate(<<"D", "u", "n", "e", " ", "M", "e", "s", "s", "i", "a", "h">>, <<<<"J", "a", "n", "e", " ", "S", "m", "i", "t", "h">>>>, FALSE, Some(10)),
              Candidate(<<"D", "u", "n", "e">>, <<<<"J", "o", "h", "n", " ", "S", "m", "i", "t", "h">>, <<"A", "n", "n", " ", "L", "e", "e">>>>, FALSE, None) }
    IN [title : {<<"D", "u", "n", "e">>},
        author : {<<>>, <<"J", "a", "n", "e", " ", "S", "m", "i", "t", "h">>, <<"S", "m", "i", "t", "h">>},
        found : UNION {[1 .. n -> found] : n \in 1 .. MaxCandidates}]

AdapterInit ==
    /\ aArgs \in {Some(a) : a \in AdapterArgs}
    /\ aOut = None

CallFetchGoogleBook ==
    /\ aOut = None
    /\ aOut' = Some([adapter |-> "google",
                     result |-> FetchGoogleBook(aArgs[1].title, aArgs[1].author,
                                                aArgs[1].found)])
    /\ UNCHANGED <<aArgs, notAdapterVars>>

CallFetchHardcoverBook ==
    /\ aOut = None
    /\ aOut' = Some([adapter |-> "hardcover",
                     result |-> FetchHardcoverBook(aArgs[1].title,
                                                   aArgs[1].author,
                                                   aArgs[1].found)])
    /\ UNCHANGED <<aArgs, notAdapterVars>>

NextAdapters == CallFetchGoogleBook \/ CallFetchHardcoverBook

ContextIdle ==
    /\ cpc = "hardcover"
    /\ hc = None
    /\ google = None
    /\ open_library = None
    /\ adapterLog = <<>>
    /\ ctxOut = None

AdapterIdle ==
    /\ aArgs = None
    /\ aOut = None

(***************************************************************************)
(* _hc_request and _search_google_books: the network requests of the       *)
(* adapters (backend/hardcover_client.py, backend/google_books_client.py)  *)
(***************************************************************************)

\* hardcover_client.py, line 45: the default of the parameter retries; no
\* caller passes another value.
HC_RETRIES == 2

\* What one requests.post or requests.get can do: answer with data, with data
\* that holds nothing, with GraphQL errors next to data, with GraphQL errors
\* alone, or raise a RequestException (a timeout, or raise_for_status on an
\* HTTP error status).
PostOutcomes ==
    {"data", "empty", "errors_with_data", "errors", "timeout", "http_error"}
RequestExceptions == {"timeout", "http_error"}

\* The queries fetch_hardcover_book issues through _hc_request: SEARCH_QUERY
\* (search_books), BOOK_DETAIL_QUERY, BOOK_REVIEWS_QUERY (fetch_reviews).
HcQueries == {"search", "detail", "reviews"}

\* The requests of one kind issued so far in this resolve call.
Issued(kind) == {i \in DOMAIN rlog : rlog[i].kind = kind}

\* fetch_hardcover_book after the request of rpc has ended: the detail and
\* the reviews are asked for only when the search found a candidate; a
\* failed detail request does not stop the reviews request.
AfterRequest(kind, found) ==
    IF kind = "search" THEN (IF found THEN "detail" ELSE "returned")
    ELSE IF kind = "detail" THEN "reviews"
    ELSE "returned"

\* fetch_hardcover_book, lines 397-413: the search is the first request.
HcResolve ==
    /\ rpc = "idle"
    /\ rpc' = "search"
    /\ rattempt' = 1
    /\ UNCHANGED <<rlog, rslept, notRequestVars>>

\* _hc_request, lines 59-77: the POST is answered and data is returned.
HcRequestReturns(outcome) ==
    /\ rpc \in HcQueries
    /\ outcome \in {"data", "empty", "errors_with_data"}
    /\ rlog' = Append(rlog, [kind |-> rpc, attempt |-> rattempt,
                             outcome |-> outcome])
    /\ rpc' = AfterRequest(rpc, outcome # "empty")
    /\ rattempt' = 1
    /\ UNCHANGED <<rslept, notRequestVars>>

\* Lines 69-75: GraphQL errors without data raise HardcoverError, which the
\* except clause of line 79 does not catch; the caller logs it and goes on
\* with nothing.
HcRequestRaises ==
    /\ rpc \in HcQueries
    /\ rlog' = Append(rlog, [kind |-> rpc, attempt |-> rattempt,
                             outcome |-> "errors"])
    /\ rpc' = AfterRequest(rpc, FALSE)
    /\ rattempt' = 1
    /\ UNCHANGED <<rslept, notRequestVars>>

\* Lines 79-86: a RequestException before the last attempt: sleep 2 * attempt
\* seconds, then the loop issues the same POST again.
HcRequestRetries(outcome) ==
    /\ rpc \in HcQueries
    /\ outcome \in RequestExceptions
    /\ rattempt < HC_RETRIES
    /\ rlog' = Append(rlog, [kind |-> rpc, attempt |-> rattempt,
                             outcome |-> outcome])
    /\ rslept' = rslept + 2 * rattempt
    /\ rattempt' = rattempt + 1
    /\ UNCHANGED <<rpc, notRequestVars>>

\* Lines 79-88: a RequestException on the last attempt ends the loop and
\* HardcoverError is raised; the caller logs it and goes on with nothing.
HcRequestGivesUp(outcome) ==
    /\ rpc \in HcQueries
    /\ outcome \in RequestExceptions
    /\ rattempt >= HC_RETRIES
    /\ rlog' = Append(rlog, [kind |-> rpc, attempt |-> rattempt,
                             outcome |-> outcome])
    /\ rpc' = AfterRequest(rpc, FALSE)
    /\ rattempt' = 1
    /\ UNCHANGED <<rslept, notRequestVars>>

\* google_books_client.py, lines 49-62: one requests.get; a RequestException
\* is logged and [] returned.
SearchGoogleBooks(outcome) ==
    /\ rpc = "idle"
    /\ outcome \in {"data", "empty"} \cup RequestExceptions
    /\ rlog' = Append(rlog, [kind |-> "google_search", attempt |-> 1,
                             outcome |-> outcome])
    /\ rpc' = "returned"
    /\ UNCHANGED <<rattempt, rslept, notRequestVars>>

NextRequests ==
    \/ HcResolve
    \/ \E outcome \in PostOutcomes : HcRequestReturns(outcome)
    \/ HcRequestRaises
    \/ \E outcome \in PostOutcomes : HcRequestRetries(outcome)
    \/ \E outcome \in PostOutcomes : HcRequestGivesUp(outcome)
    \/ \E outcome \in PostOutcomes : SearchGoogleBooks(outcome)

RequestIdle ==
    /\ rpc = "idle"
    /\ rattempt = 1
    /\ rlog = <<>>
    /\ rslept = 0

(***************************************************************************)
(* _filter_quality_excerpts and the backfill of fetch_book_context, called *)
(* on their own                                                            *)
(***************************************************************************)

\* Bound: the number of reviews in a drawn input.
MaxReviews == 2

\* Review texts at and around the limits 50 and 600: exactly 50 characters
\* with and without a keyword, 49, 80 (one sharing its prefix with the first
\* but for the case), exactly 600, 700 without a blank, 700 with the keyword
\* after the last blank of the first 600, 700 whose last blank is early.
ReviewSamples ==
    { ReviewText(50, 20, 600, <<"S">>),
      ReviewText(50, 0, 600, <<"b">>),
      ReviewText(49, 20, 600, <<"c">>),
      ReviewText(80, 20, 600, <<"s">>),
      ReviewText(80, 0, 600, <<"d">>),
      ReviewText(600, 590, 600, <<"e">>),
      ReviewText(700, 5, 600, <<"f">>),
      ReviewText(710, 708, 590, <<"z">>),
      ReviewText(715, 5, 14, <<"p">>) }

\* n reviews of 80 characters with n different prefixes.
ManyReviews(n, term) ==
    [i \in 1 .. n |-> ReviewText(80, term, 600, [k \in 1 .. i |-> "x"])]

ReviewInputs ==
    UNION {[1 .. n -> ReviewSamples] : n \in 0 .. MaxReviews}
    \cup {ManyReviews(81, 20), ManyReviews(31, 0)}

ExcerptInit ==
    /\ xArgs \in ReviewInputs
    /\ xOut = None

\* _filter_quality_excerpts(reviews) is called.
CallFilterQualityExcerpts ==
    /\ xOut = None
    /\ xOut' = Some([fn |-> "filter",
                     excerpts |-> FilterQualityExcerpts(xArgs)])
    /\ UNCHANGED <<xArgs, notExcerptVars>>

\* fetch_book_context, lines 336-360: the filter, then the backfill.
CollectExcerpts ==
    /\ xOut = None
    /\ xOut' = Some([fn |-> "context", excerpts |-> QualityExcerpts(xArgs)])
    /\ UNCHANGED <<xArgs, notExcerptVars>>

NextExcerpts == CallFilterQualityExcerpts \/ CollectExcerpts

ExcerptIdle ==
    /\ xArgs = <<>>
    /\ xOut = None

LaterIdle == RequestIdle /\ ExcerptIdle

NewerIdle == OnDemandIdle /\ ContextIdle /\ AdapterIdle /\ LaterIdle


(***************************************************************************)
(* Specifications                                                          *)
(***************************************************************************)

InitQuota == QuotaInit /\ OverallIdle /\ ScoreIdle /\ UpsertIdle /\ NewerIdle

SpecQuota == InitQuota /\ [][NextQuota]_vars

InitQuotaSeq == QuotaInit /\ OverallIdle /\ ScoreIdle /\ UpsertIdle /\ NewerIdle

SpecQuotaSeq == InitQuotaSeq /\ [][NextQuotaSeq]_vars

InitOverall == QuotaInit /\ OverallInit /\ ScoreIdle /\ UpsertIdle /\ NewerIdle

SpecOverall == InitOverall /\ [][NextOverall]_vars

InitScore == QuotaInit /\ OverallIdle /\ ScoreInit /\ UpsertIdle /\ NewerIdle

SpecScore == InitScore /\ [][NextScore]_vars

InitUpsert == QuotaInit /\ OverallIdle /\ ScoreIdle /\ UpsertInit /\ NewerIdle

SpecUpsert == InitUpsert /\ [][NextUpsert]_vars

InitUpsertConc == QuotaInit /\ OverallIdle /\ ScoreIdle /\ UpsertConcInit /\ NewerIdle

SpecUpsertConc == InitUpsertConc /\ [][NextUpsertConc]_vars

(***************************************************************************)
(* Claims about the quota guard                                            *)
(***************************************************************************)

\* C1: under every interleaving of concurrent _check_and_increment_usage
\* calls, the stored count of a (identity, year-month) never exceeds
\* ON_DEMAND_MONTHLY_CAP and no more than ON_DEMAND_MONTHLY_CAP calls for it
\* return allowed = True.
C1_CountNeverExceedsCap ==
    /\ \A k \in DOMAIN usage : usage[k] <= ON_DEMAND_MONTHLY_CAP
    /\ \A k \in DOMAIN nAllowed : nAllowed[k] <= ON_DEMAND_MONTHLY_CAP

\* C2: a call that runs without interleaving denies and leaves the count
\* alone when the stored count is at or over the cap, and otherwise raises
\* the count by exactly one and returns (True, count + 1); after
\* ON_DEMAND_MONTHLY_CAP allowed calls the next one is denied and the count
\* stays at the cap; _get_usage_count returns the count and never changes it.
C2_SequentialCheckAndIncrement ==
    [][ /\ (nCalls' = nCalls + 1) =>
             LET key == qret'.key
                 before == SelectCount(usage, key)
             IN /\ qret'.op = "check"
                /\ before >= ON_DEMAND_MONTHLY_CAP =>
                     /\ qret'.allowed = FALSE
                     /\ qret'.count = before
                     /\ SelectCount(usage', key) = before
                /\ before < ON_DEMAND_MONTHLY_CAP =>
                     /\ qret'.allowed = TRUE
                     /\ qret'.count = before + 1
                     /\ SelectCount(usage', key) = before + 1
                /\ Allowed(key) = ON_DEMAND_MONTHLY_CAP =>
                     /\ qret'.allowed = FALSE
                     /\ SelectCount(usage', key) = ON_DEMAND_MONTHLY_CAP
                /\ \A k \in DOMAIN usage : k # key => usage'[k] = usage[k]
        /\ (qret'.op = "get") =>
             /\ usage' = usage
             /\ qret'.count = SelectCount(usage, qret'.key)
      ]_vars

\* C2 witness: the eleventh call of a month for one identity was denied.
C2_Witness ==
    /\ qret.op = "check"
    /\ qret.allowed = FALSE
    /\ qret.count = ON_DEMAND_MONTHLY_CAP
    /\ Allowed(qret.key) = ON_DEMAND_MONTHLY_CAP
    /\ SelectCount(usage, qret.key) = ON_DEMAND_MONTHLY_CAP

(***************************************************************************)
(* Claims about _calculate_overall                                         *)
(***************************************************************************)

\* c is an integer nearest to n20 / 20.
NearestTo(c, n20) == 20 * c - 10 <= n20 /\ n20 <= 20 * c + 10

\* C3: for integer dimension scores in 0..100 the result is the weighted sum
\* 0.40*readability + 0.15*(grammar+polish+prose+pacing) rounded to a nearest
\* integer when readability >= 70, and the smaller of that and 75 when
\* readability < 70; so readability < 70 implies overall <= 75.
C3_OverallWeightedAndCapped ==
    overall # None =>
        LET result == overall[1]
            n20 == 8 * dimScores["readability"]
                     + 3 * (dimScores["grammar"] + dimScores["polish"]
                            + dimScores["prose"] + dimScores["pacing"])
        IN /\ dimScores["readability"] >= 70 => NearestTo(result, n20)
           /\ dimScores["readability"] < 70 =>
                /\ result <= 75
                /\ \E c \in 0 .. 100 :
                     /\ NearestTo(c, n20)
                     /\ result = (IF c < 75 THEN c ELSE 75)

\* C3 witness: readability below 70 with a weighted sum above 75, returned
\* as 75.
C3_Witness ==
    /\ overall = Some(75)
    /\ dimScores["readability"] < 70
    /\ 8 * dimScores["readability"]
         + 3 * (dimScores["grammar"] + dimScores["polish"]
                + dimScores["prose"] + dimScores["pacing"]) > 1520

(***************************************************************************)
(* Claims about score_book                                                 *)
(***************************************************************************)

HasFlag(res, flag) == \E i \in 1 .. Len(res.flags) : res.flags[i] = flag

\* The response fails JSON parsing directly, with the fences stripped, and
\* on its first-brace-to-last-brace span.
FailsEveryStrategy(o) ==
    /\ o.kind = "text"
    /\ ~JsonLoads(o.text).ok
    /\ ~JsonLoads(StripFences(o.text)).ok
    /\ ~(BraceSpan(o.text).found /\ JsonLoads(BraceSpan(o.text).span).ok)

\* C4: a response that fails every parse strategy is an attempt failure:
\* while attempts remain score_book does not return on it but calls the LLM
\* again, and a result carrying the json_parse_failure flag is returned only
\* once GEMINI_RETRY_MAX calls have been made.
C4_UnparseableResponseIsRetried ==
    /\ (FailsEveryStrategy(response) /\ llmCalls < GEMINI_RETRY_MAX)
          => spc # "returned"
    /\ (spc = "returned" /\ HasFlag(sresult[1], <<"json_parse_failure">>))
          => llmCalls = GEMINI_RETRY_MAX

\* The attempt fails: the call raised, or the parsed value is no dictionary
\* or lacks one of the five dimension keys.
AttemptFails(o) ==
    \/ o.kind = "raise"
    \/ /\ o.kind = "text"
       /\ LET v == ParseLlmResponse(o.text) IN
            v.type # "dict" \/ \E d \in Dimensions : d \notin DOMAIN v.scores

\* The outcomes of an LLM call on which the attempt fails.
FailingOutcomes == {o \in LLMOutcomes : AttemptFails(o)}

\* C5: one score_book invocation issues at most GEMINI_RETRY_MAX LLM calls,
\* never two at a time and none after a valid result; an attempt that fails
\* is followed by a wait and another call exactly when fewer than
\* GEMINI_RETRY_MAX calls have been made, and otherwise by the failure return.
C5_SequentialBoundedRetries ==
    /\ [](llmCalls <= GEMINI_RETRY_MAX /\ inFlight <= 1)
    /\ [][ /\ (llmCalls' # llmCalls) =>
                /\ llmCalls' = llmCalls + 1
                /\ inFlight = 0
                /\ sresult = None
           /\ (sresult # None) => (llmCalls' = llmCalls /\ sresult' = sresult)
           /\ (spc = "inflight" /\ response' \in FailingOutcomes) =>
                /\ sresult' = None
                /\ llmCalls < GEMINI_RETRY_MAX => spc' = "sleep"
                /\ llmCalls >= GEMINI_RETRY_MAX => spc' = "exhausted"
           /\ (spc = "inflight" /\ response' \notin FailingOutcomes) =>
                /\ spc' = "returned"
                /\ sresult'[1].scoring_status = "ok"
           /\ (spc = "sleep") => (spc' = "attempt" /\ llmCalls' = llmCalls)
           /\ (spc = "attempt") => (spc' = "inflight" /\ llmCalls' = llmCalls + 1)
           /\ (spc = "exhausted") => (spc' = "returned" /\ llmCalls' = llmCalls)
      ]_vars

\* C5 witness: three calls were made, the third one returned an object
\* lacking a dimension key, and score_book returned a failure.
C5_Witness ==
    /\ spc = "returned"
    /\ llmCalls = GEMINI_RETRY_MAX
    /\ nWaits = GEMINI_RETRY_MAX - 1
    /\ response = Replies(<<"{missing}">>)
    /\ sresult[1].scoring_status = "error"

\* C6: when all attempts failed, a last error message containing "429" or
\* "rate limit" (in any case) gives scoring_status temporarily_unavailable and
\* flags ["openrouter_rate_limited"]; every other last error gives
\* scoring_status error, with flag api_error_500 for a "500" message.
C6_LastErrorDecidesStatus ==
    (spc = "returned" /\ last_error # None /\ sresult[1].scoring_status # "ok") =>
        LET m == last_error[1]
            r == sresult[1]
        IN IF In("429", m) \/ InLower("rate limit", m)
           THEN /\ r.scoring_status = "temporarily_unavailable"
                /\ r.flags = <<<<"openrouter_rate_limited">>>>
           ELSE /\ r.scoring_status = "error"
                /\ In("500", m) => r.flags = <<<<"api_error_500">>>>

(***************************************************************************)
(* Claims about upsert_scored_book                                         *)
(***************************************************************************)

PairOf(call) == <<call.title, call.author>>
TheRow(bks, pair) == CHOOSE r \in RowsFor(bks, pair) : TRUE
SameExcept(r1, r2, cols) == \A col \in (DOMAIN r1) \ cols : r1[col] = r2[col]

\* A step of the sequential specification that is one upsert call.
IsUpsertStep == nUpserts' = nUpserts + 1

\* The scoring columns of the row are those computed from the call.
ScoringFieldsFrom(row, call, at) ==
    /\ row.qualityScore = call.scores.overall_score
    /\ row.technicalQuality = call.scores.scores.grammar
    /\ row.proseStyle = call.scores.scores.prose
    /\ row.pacing = call.scores.scores.pacing
    /\ row.readability = call.scores.scores.readability
    /\ row.craftExecution = call.scores.scores.polish
    /\ row.confidenceLevel =
          Some(IF call.scores.confidence >= 70 THEN "high"
               ELSE IF call.scores.confidence >= 40 THEN "medium" ELSE "low")
    /\ row.scoring_status =
          Some(IF call.scores.confidence < 40 /\ call.scores.scoring_status = "ok"
               THEN "low_confidence" ELSE call.scores.scoring_status)
    /\ row.context_source = Some(call.ctx.context_source)
    /\ row.last_scored_at = Some(at)

\* C7: after every call there is exactly one row for the call's pair, its
\* scoring columns are those of that call and the rows of other pairs are
\* untouched; and a second call with the inputs of the first call for a new
\* pair leaves the row of the first call, apart from last_scored_at and
\* times_requested.
C7_OneRowLatestScoresIdempotent ==
    [][IsUpsertStep =>
         LET c == lastCall'[1].call
             p == PairOf(c)
         IN /\ Cardinality(RowsFor(books', p)) = 1
            /\ ScoringFieldsFrom(TheRow(books', p), c, lastCall'[1].at)
            /\ \A q \in Pairs \ {p} : RowsFor(books', q) = RowsFor(books, q)
            /\ (/\ p \in fresh
                /\ nCallsFor[p] = 1
                /\ lastCall # None
                /\ lastCall[1].call = c)
                  => SameExcept(TheRow(books', p), TheRow(books, p),
                                {"last_scored_at", "times_requested"})
      ]_vars

IsEmptyValue(v) == v = None \/ v = Some(<<>>)
CuratedColumns == {"synopsis", "coverUrl", "isbn"}

\* C8: when a call meets an existing row, each of synopsis, coverUrl and
\* isbn keeps its stored value if that value is non-empty, and takes the value
\* the call carries if the stored value is NULL or the empty string (when
\* the call carries an empty value too, any empty value may remain).
C8_CuratedFilledOnlyWhenEmpty ==
    [][(IsUpsertStep /\ RowsFor(books, PairOf(lastCall'[1].call)) # {}) =>
         LET c == lastCall'[1].call
             old == TheRow(books, PairOf(c))
             new == TheRow(books', PairOf(c))
             carried == Excluded(c, lastCall'[1].at)
         IN \A col \in CuratedColumns :
               IF IsEmptyValue(old[col])
               THEN \/ new[col] = carried[col]
                    \/ IsEmptyValue(carried[col]) /\ IsEmptyValue(new[col])
               ELSE new[col] = old[col]
      ]_vars

\* C9: over the calls for one pair first_scored_at never changes once it is
\* non-null, last_scored_at is the time of the latest call, and
\* times_requested never decreases and is its value before the first call
\* (0 for a missing or imported row) plus the number of calls made with
\* increment_requested = True.
C9_TimestampsAndRequestCount ==
    /\ [](\A p \in Pairs : \A r \in RowsFor(books, p) :
             r.times_requested = nIncr[p])
    /\ [](lastCall # None =>
             TheRow(books, PairOf(lastCall[1].call)).last_scored_at
                = Some(lastCall[1].at))
    /\ [][\A p \in Pairs : \A r \in RowsFor(books, p) :
             /\ RowsFor(books', p) # {}
             /\ TheRow(books', p).times_requested >= r.times_requested
             /\ r.first_scored_at # None =>
                   TheRow(books', p).first_scored_at = r.first_scored_at
         ]_vars

\* C9 witness: a pair without a row was upserted twice, at two different
\* times, first by the batch (no increment) and then on demand.
C9_Witness ==
    /\ ConcPair \in fresh
    /\ nCallsFor[ConcPair] = 2
    /\ nIncr[ConcPair] = 1
    /\ lastCall[1].call.increment_requested
    /\ TheRow(books, ConcPair).first_scored_at = Some(2)
    /\ TheRow(books, ConcPair).last_scored_at = Some(3)
    /\ TheRow(books, ConcPair).times_requested = 1

AllWorkersDone == \A w \in Workers : wpc[w] = "done"

\* C10: when all concurrent on-demand upserts of one pair have finished there
\* is exactly one row for the pair, times_requested is the number of runs,
\* and first_scored_at is the time written by the run that committed first.
C10_ConcurrentUpsertsLoseNothing ==
    AllWorkersDone =>
        /\ Cardinality(RowsFor(books, ConcPair)) = 1
        /\ TheRow(books, ConcPair).times_requested = NWorkers
        /\ TheRow(books, ConcPair).first_scored_at = Some(wnow[commitOrder[1]])
        /\ Len(commitOrder) = NWorkers

\* C10 witness: all runs finished, and the run that committed first had read
\* the clock after the run that committed second.
C10_Witness ==
    /\ AllWorkersDone
    /\ wnow[commitOrder[1]] > wnow[commitOrder[2]]
    /\ TheRow(books, ConcPair).first_scored_at = Some(wnow[commitOrder[1]])

(***************************************************************************)
(* Claims about _parse_llm_response and the results of score_book          *)
(***************************************************************************)

FencedFull == <<"[fence]json", "{full}", "[fence]">>

\* C17: for the text of every LLM reply _parse_llm_response raises nothing
\* and returns the value of the first strategy that succeeds (direct parse,
\* parse without the fences, parse of the first-brace-to-last-brace span), a
\* fenced valid object being returned as that object, and the synthetic
\* default when all three fail; an attempt therefore never fails with an
\* error of the parser.
C17_ParserCascadeNeverRaises ==
    /\ response.kind = "text" =>
         LET t == response.text
             r == ParseLlmResponse(t)
             span == BraceSpan(t)
         IN /\ r.type # "raise"
            /\ JsonLoads(t).ok => r = JsonLoads(t).value
            /\ (~JsonLoads(t).ok /\ JsonLoads(StripFences(t)).ok)
                  => r = JsonLoads(StripFences(t)).value
            /\ (/\ ~JsonLoads(t).ok
                /\ ~JsonLoads(StripFences(t)).ok
                /\ span.found /\ JsonLoads(span.span).ok)
                  => r = JsonLoads(span.span).value
            /\ (/\ ~JsonLoads(t).ok
                /\ ~JsonLoads(StripFences(t)).ok
                /\ ~(span.found /\ JsonLoads(span.span).ok))
                  => /\ r.type = "dict"
                     /\ r.scores = [d \in Dimensions |-> 50]
                     /\ r.confidence = Some(0)
                     /\ r.flags = <<<<"json_parse_failure">>>>
            /\ t = FencedFull => r = JsonValue("{full}")
    /\ last_error # Some(RecursionErrorMsg)

\* C18: score_book always ends by returning a result whose scoring_status is
\* ok, temporarily_unavailable or error, and whose overall_score is a number
\* exactly when the status is ok.
C18_AlwaysAResultAsData ==
    /\ (spc = "returned") <=> (sresult # None)
    /\ spc \in {"entry", "attempt", "inflight", "sleep", "exhausted", "returned"}
    /\ spc # "returned" => ENABLED NextScore
    /\ sresult # None =>
         /\ sresult[1].scoring_status \in {"ok", "temporarily_unavailable", "error"}
         /\ (sresult[1].overall_score # None) <=> (sresult[1].scoring_status = "ok")

\* C18 witness: the three attempts got a JSON null, a number and a timeout,
\* and score_book returned an error result.
C18_Witness ==
    /\ spc = "returned"
    /\ llmCalls = GEMINI_RETRY_MAX
    /\ response = Raises(<<"Read timed out.">>)
    /\ sresult[1].scoring_status = "error"
    /\ sresult[1].overall_score = None

\* C19: without an API key, or with a key and an empty or whitespace-only
\* context, score_book returns an error result (flags
\* missing_openrouter_api_key, else no_context_found) with a null overall
\* score, and makes no LLM call and no backoff wait.
C19_FailFastWithoutKeyOrContext ==
    /\ (~sArgs.has_key \/ TextLen(Strip(sArgs.context)) = 0) =>
          /\ llmCalls = 0
          /\ nWaits = 0
          /\ spc \in {"entry", "returned"}
    /\ (spc = "returned" /\ ~sArgs.has_key) =>
          /\ sresult[1].scoring_status = "error"
          /\ sresult[1].overall_score = None
          /\ sresult[1].flags = <<<<"missing_openrouter_api_key">>>>
    /\ (spc = "returned" /\ sArgs.has_key /\ TextLen(Strip(sArgs.context)) = 0) =>
          /\ sresult[1].scoring_status = "error"
          /\ sresult[1].overall_score = None
          /\ sresult[1].flags = <<<<"no_context_found">>>>

\* C19 witness: a key and a context of three spaces; returned with
\* no_context_found.
C19_Witness ==
    /\ spc = "returned"
    /\ sArgs.has_key
    /\ sArgs.context = <<Run(" ", 3)>>
    /\ sresult[1].flags = <<<<"no_context_found">>>>
    /\ llmCalls = 0

\* C20: a result with scoring_status ok has an overall_score in 0..100.
C20_OkScoreWithinRange ==
    (spc = "returned" /\ sresult[1].scoring_status = "ok") =>
        /\ sresult[1].overall_score # None
        /\ sresult[1].overall_score[1] \in 0 .. 100

(***************************************************************************)
(* Claims about score_on_demand                                            *)
(***************************************************************************)

InitOnDemand ==
    /\ OverallIdle /\ ScoreIdle /\ OnDemandInit /\ ContextIdle /\ AdapterIdle
    /\ LaterIdle

SpecOnDemand == InitOnDemand /\ [][NextOnDemand]_vars

C12_QuotaBeforeExpensivePath ==
    [][ /\ (Len(jobs') > Len(jobs) \/ threads' # threads)
           => /\ hquota # None
              /\ hquota[1].allowed
              /\ hquota[1].key = hreq[1].user_key
        /\ (hpc = "checked" /\ hquota # None /\ ~hquota[1].allowed
            /\ hpc' # hpc)
           => /\ hresp' = Response(429, "cap_reached")
              /\ hpc' = "idle"
              /\ UNCHANGED <<jobs, threads, jobCalls>>
        /\ threads' \subseteq DOMAIN jobs'
        /\ \A j \in DOMAIN jobCalls' :
              jobCalls'[j] > 0 => j \in threads' ]_vars

\* One request was let through and its worker made calls; a later one was
\* refused with 429.
C12_Witness ==
    /\ hresp = Response(429, "cap_reached")
    /\ hquota # None /\ ~hquota[1].allowed
    /\ \E j \in DOMAIN jobs : j \in threads /\ jobCalls[j] > 0

(***************************************************************************)
(* Claims about fetch_book_context                                         *)
(***************************************************************************)

InitContext ==
    QuotaInit /\ OverallIdle /\ ScoreIdle /\ UpsertIdle /\ NewerIdle

SpecContext == InitContext /\ [][NextContext]_vars

Called(adapter) == \E i \in DOMAIN adapterLog : adapterLog[i][1] = adapter

\* C13: the adapters are called in the order Hardcover, Google Books, Open
\* Library; Google Books is called only when Hardcover yielded neither a
\* description nor reviews, Open Library only when Google Books was called and
\* yielded no description; in particular neither is called when Hardcover
\* yields a description or reviews; a failing adapter does not stop the
\* resolution.
C13_AdapterChainAdvancesOnlyOnEmpty ==
    LET Rank(a) == CASE a = "hardcover" -> 1 [] a = "google" -> 2 [] OTHER -> 3
    IN /\ \A i, j \in DOMAIN adapterLog :
             i < j => Rank(adapterLog[i][1]) < Rank(adapterLog[j][1])
       /\ Called("google") => Called("hardcover") /\ NeedsFallback(hc)
       /\ Called("open_library")
             => /\ Called("google")
                /\ google = None \/ ~Truthy(google[1].description)
       /\ (hc # None /\ ~NeedsFallback(hc))
             => ~Called("google") /\ ~Called("open_library")
       /\ cpc = "returned" => ctxOut # None

HasPart(text, label, body) ==
    \E i \in DOMAIN text : text[i].label = label /\ text[i].body = body

\* C15: in the Context returned, the description of the context text and
\* meta.description_length come from Hardcover when its record has a
\* description, otherwise from Google Books: when Hardcover returned a record
\* without a description and Google Books one with a description, the text
\* holds the Google Books description.
C15_DescriptionPrimaryElseSecondary ==
    cpc = "returned" =>
        LET c == ctxOut[1]
        IN /\ (hc # None /\ Truthy(hc[1].description))
                 => /\ HasPart(c.context_text, "Book Description (Hardcover)",
                               Strip(hc[1].description[1]))
                    /\ c.meta.description_length
                          = TextLen(hc[1].description[1])
           /\ (/\ hc # None /\ ~Truthy(hc[1].description)
               /\ google # None /\ Truthy(google[1].description))
                 => /\ HasPart(c.context_text,
                               "Book Description (Google Books)",
                               google[1].description[1])
                    /\ c.meta.description_length
                          = TextLen(google[1].description[1])

\* C16: the Context returned has one of the three context_source labels:
\* description+reviews exactly when excerpt_count > 0, description+ratings
\* exactly when excerpt_count = 0 and ratings_count_estimate > 0 or an
\* average rating is present, description_only otherwise; excerpt_count is
\* the length of quality_excerpts.
C16_ContextSourceLabel ==
    cpc = "returned" =>
        LET c == ctxOut[1]
            signal == c.ratings_count_estimate > 0
                      \/ c.meta.average_rating # None
        IN /\ c.context_source \in {"description_only", "description+ratings",
                                    "description+reviews"}
           /\ c.context_source = "description+reviews" <=> c.excerpt_count > 0
           /\ c.context_source = "description+ratings"
                 <=> (c.excerpt_count = 0 /\ signal)
           /\ c.context_source = "description_only"
                 <=> (c.excerpt_count = 0 /\ ~signal)
           /\ c.excerpt_count = Len(c.quality_excerpts)

\* A Context without excerpts whose only rating signal is an average rating,
\* with no ratings count from any adapter.
C16_Witness ==
    /\ cpc = "returned"
    /\ ctxOut[1].context_source = "description+ratings"
    /\ ctxOut[1].ratings_count_estimate = 0
    /\ ctxOut[1].meta.average_rating # None
    /\ ctxOut[1].excerpt_count = 0

(***************************************************************************)
(* Claims about the source adapters                                        *)
(***************************************************************************)

InitAdapters ==
    /\ QuotaInit /\ OverallIdle /\ ScoreIdle /\ UpsertIdle
    /\ OnDemandIdle /\ ContextIdle /\ AdapterInit /\ LaterIdle

SpecAdapters == InitAdapters /\ [][NextAdapters]_vars

\* The words of a string: the pieces between blanks that are not empty.
WordsOf(s) == SplitOn(s, " ") \ {<<>>}

SharesAuthorToken(author, authors) ==
    \E a \in {authors[i] : i \in DOMAIN authors} :
        WordsOf(LowerStr(author)) \cap WordsOf(LowerStr(a)) # {}

\* C14: when the query author is not empty, whatever candidate
\* fetch_google_book or fetch_hardcover_book returns shares a word with the
\* query author; a candidate without such a word (Smithson for Jane Smith, or
\* no authors at all) is answered with None.
C14_AuthorMismatchIsRejected ==
    (aOut # None /\ StripStr(aArgs[1].author) # <<>> /\ aOut[1].result # None)
        => SharesAuthorToken(aArgs[1].author, aOut[1].result[1].authors)

(***************************************************************************)
(* Claims about the low-confidence flags of score_book                     *)
(***************************************************************************)

\* C21: when score_book returns an ok result, its flags end with the
\* review-count flag exactly when review_count < 5, followed by the
\* context-length flag exactly when the context text has fewer than 800
\* characters, whatever the reported confidence, and neither flag occurs
\* before that; and a response that is one object with the five dimension
\* keys is answered, in that step, by an ok result with a numeric
\* overall_score, which carries the review-count flag when review_count = 0.
C21_LowConfidenceFlags ==
    [][ LET few == <<"low_confidence:", "fewer than 5 review-derived snippets">>
            thin == <<"low_confidence:", "limited context length">>
            appended == (IF sArgs.review_count < 5 THEN <<few>> ELSE <<>>)
                        \o (IF TextLen(sArgs.context) < 800 THEN <<thin>>
                            ELSE <<>>)
            flags == sresult'[1].flags
            n == Len(flags) - Len(appended)
        IN /\ (sresult = None /\ sresult' # None
               /\ sresult'[1].scoring_status = "ok")
              => /\ n >= 0
                 /\ SubSeq(flags, n + 1, Len(flags)) = appended
                 /\ \A i \in 1 .. n : flags[i] \notin {few, thin}
                 /\ sresult'[1].overall_score # None
           /\ (spc = "inflight" /\ response' # response
               /\ response' \in {Replies(<<"{full}">>), Replies(<<"{lowread}">>)})
              => /\ sresult' # None
                 /\ sresult'[1].scoring_status = "ok"
                 /\ sresult'[1].overall_score # None
                 /\ sArgs.review_count = 0 => HasFlag(sresult'[1], few)
      ]_vars

\* C21 witness: no reviews, a context of 800 characters and a reported
\* confidence of 78: an ok result whose only flag is the review-count flag.
C21_Witness ==
    /\ spc = "returned"
    /\ sArgs.review_count = 0
    /\ TextLen(sArgs.context) = 800
    /\ response = Replies(<<"{full}">>)
    /\ sresult[1].scoring_status = "ok"
    /\ sresult[1].confidence = Some(78)
    /\ sresult[1].overall_score # None
    /\ sresult[1].flags = <<<<"low_confidence:", "fewer than 5 review-derived snippets">>>>

(***************************************************************************)
(* Claims about _run_scoring_job and the table on_demand_jobs               *)
(***************************************************************************)

\* C22: when upsert_scored_book fails to write it returns None to the worker
\* (the table books is left as it was and the job is not failed by an
\* exception), and the worker that holds a scored result then completes the
\* job: status completed, no error_message, and result_json is the scored
\* result, carrying a book_id only when the upsert returned one.
C22_UpsertFailureIsNotFatal ==
    [][ \A j \in DOMAIN jobs :
          /\ (jwork[j].pc = "context" /\ jwork'[j].pc = "upserted"
              /\ jwork'[j].book_id = None)
             => /\ books' = books
                /\ jobs'[j].status = "running"
                /\ jwork'[j].scores # None
                /\ jwork'[j].scores[1].scoring_status = "ok"
          /\ (jwork[j].pc = "upserted" /\ jwork'[j].pc # "upserted")
             => /\ jobs'[j].status = "completed"
                /\ jobs'[j].error_message = None
                /\ jobs'[j].result_json =
                       Some(JsonDumps([scores |-> jwork[j].scores[1],
                                       book_id |-> jwork[j].book_id])) ]_vars

\* A job was completed with a scored result that has no book_id while the
\* table books holds no row at all.
C22_Witness ==
    \E j \in DOMAIN jobs :
       /\ jobs[j].status = "completed"
       /\ jwork[j].pc = "done"
       /\ jwork[j].book_id = None
       /\ jobs[j].result_json # None
       /\ jobs[j].result_json[1][2].book_id = None
       /\ jobs[j].result_json[1][2].scores.overall_score = Some(82)
       /\ books = {}

\* C23: a job row has one of the four statuses; a new row is queued; the
\* status changes only queued -> running, running -> completed and
\* running -> failed; a completed or failed row never changes again; a
\* completed row has a result_json, a failed row has an error_message (any
\* text, the empty one included) and no result_json.
C23_JobStatusMachine ==
    [][ /\ \A j \in DOMAIN jobs' :
              /\ jobs'[j].status \in {"queued", "running", "completed", "failed"}
              /\ jobs'[j].status = "completed" => jobs'[j].result_json # None
              /\ jobs'[j].status = "failed"
                 => jobs'[j].error_message # None /\ jobs'[j].result_json = None
        /\ \A j \in DOMAIN jobs' \ DOMAIN jobs : jobs'[j].status = "queued"
        /\ \A j \in DOMAIN jobs :
              /\ j \in DOMAIN jobs'
              /\ jobs'[j].status # jobs[j].status
                 => <<jobs[j].status, jobs'[j].status>> \in
                       {<<"queued", "running">>, <<"running", "completed">>,
                        <<"running", "failed">>}
              /\ jobs[j].status \in {"completed", "failed"}
                 => jobs'[j] = jobs[j] ]_vars

\* Two jobs have ended, one completed with a result and one failed with the
\* message of the empty context.
C23_Witness ==
    /\ Len(jobs) = 2
    /\ \E j \in DOMAIN jobs :
          /\ jobs[j].status = "completed"
          /\ jobs[j].result_json # None
          /\ jobs[j].error_message = None
    /\ \E j \in DOMAIN jobs :
          /\ jobs[j].status = "failed"
          /\ jobs[j].error_message =
                 Some("No context available from data sources")
          /\ jobs[j].result_json = None

\* The worker threads keep running and every call they make returns: each
\* step a worker can take is eventually taken, and the handler that created
\* a job goes on to start its thread.
SpecOnDemandLive ==
    /\ InitOnDemand
    /\ [][NextOnDemand]_vars
    /\ WF_vars(StartWorker)
    /\ \A j \in 1 .. MaxRequests : WF_vars(WorkerStep(j))

\* C29: every job row that score_on_demand has created is eventually
\* completed or failed.
C29_EveryJobEnds ==
    \A j \in 1 .. MaxRequests :
       (j \in DOMAIN jobs)
       ~> (j \in DOMAIN jobs /\ jobs[j].status \in {"completed", "failed"})

\* Every job of the run has ended and its worker has returned, one of them
\* after score_book answered temporarily_unavailable.
C29_Witness ==
    /\ Len(jobs) = MaxRequests
    /\ \A j \in DOMAIN jobs :
          jobs[j].status \in {"completed", "failed"} /\ jwork[j].pc = "done"
    /\ "on_demand_rate_limited" \in DOMAIN events

(***************************************************************************)
(* Claims about what reaches the table books                               *)
(***************************************************************************)

SpecCache == InitOnDemand /\ [][NextCache]_vars

\* C30: the table books changes only in a step in which the on-demand worker
\* or the batch scorer holds a result with status ok, so no row ever carries
\* the status error or temporarily_unavailable; a step that fails a job, and
\* a batch run whose result is not ok, leave books as it was, so the book is
\* no more a cache hit than before; and no step lowers a usage counter or
\* removes one: the slot a failed request consumed stays consumed.
C30_FailedResultNeverCached ==
    [][ /\ books' # books
           => \/ \E j \in DOMAIN jobs :
                    /\ jwork[j].pc = "context"
                    /\ jwork'[j].pc = "upserted"
                    /\ jwork'[j].scores[1].scoring_status = "ok"
              \/ /\ Len(batch') > Len(batch)
                 /\ batch'[Len(batch')].scoring_status = "ok"
        /\ \A r \in books' :
              r.scoring_status \notin
                  {Some("error"), Some("temporarily_unavailable")}
        /\ \A j \in DOMAIN jobs :
              (jobs[j].status # "failed" /\ jobs'[j].status = "failed")
              => /\ books' = books
                 /\ usage' = usage
                 /\ IsCached(books', jobs[j].title, jobs[j].author)
                    = IsCached(books, jobs[j].title, jobs[j].author)
        /\ (Len(batch') > Len(batch)
            /\ batch'[Len(batch')].scoring_status # "ok")
           => books' = books
        /\ \A k \in DOMAIN usage :
              k \in DOMAIN usage' /\ usage'[k] >= usage[k] ]_vars

\* A job failed and a batch run ended with status error; the book of the job
\* is still not a cache hit and the requester's slot is still counted.
C30_Witness ==
    /\ \E j \in DOMAIN jobs :
          /\ jobs[j].status = "failed"
          /\ ~IsCached(books, jobs[j].title, jobs[j].author)
    /\ Len(batch) = 1
    /\ batch[1].scoring_status = "error"
    /\ ~batch[1].upserted
    /\ \E k \in DOMAIN usage : usage[k] >= 1

(***************************************************************************)
(* Claims about the network requests of the source adapters                 *)
(***************************************************************************)

InitRequests ==
    /\ QuotaInit /\ OverallIdle /\ ScoreIdle /\ UpsertIdle
    /\ OnDemandIdle /\ ContextIdle /\ AdapterIdle /\ LaterIdle

SpecRequests == InitRequests /\ [][NextRequests]_vars

\* C24: within one resolve call every adapter request (the Hardcover search,
\* detail and reviews requests, the Google Books search) is issued at most
\* once, whether or not it failed, and no time is slept between attempts.
C24_NoAdapterRetry ==
    /\ \A kind \in {"search", "detail", "reviews", "google_search"} :
          Cardinality(Issued(kind)) <= 1
    /\ rslept = 0

(***************************************************************************)
(* Claims about the backoff of score_book                                  *)
(***************************************************************************)

\* C25: score_book sleeps only after a failed attempt k with
\* 1 <= k < GEMINI_RETRY_MAX, for at least 2^k seconds and less than 2^k + 1,
\* longer than the wait before, and the next thing it does is attempt k + 1;
\* so there are never more waits than attempts, and a call that made
\* attempts returns after exactly one wait less than attempts.
C25_BackoffSchedule ==
    [][ /\ nWaits' # nWaits
           => /\ nWaits' = nWaits + 1
              /\ last_error # None
              /\ llmCalls = attempt
              /\ inFlight = 0
              /\ attempt \in 1 .. GEMINI_RETRY_MAX - 1
              /\ lastWait'[1] = attempt
              /\ lastWait'[2] >= 10 * (2 ^ attempt)
              /\ lastWait'[2] < 10 * (2 ^ attempt) + 10
              /\ lastWait'[2] > lastWait[2]
              /\ attempt' = attempt + 1
              /\ spc' = "attempt"
        /\ (spc = "attempt" /\ spc' # spc)
           => llmCalls' = llmCalls + 1 /\ nWaits' = nWaits
        /\ nWaits' <= llmCalls'
        /\ (spc' = "returned" /\ llmCalls' > 0)
           => nWaits' = llmCalls' - 1 ]_vars

\* All attempts failed: two waits, the second after attempt 2 and 4.9
\* seconds long, none after attempt 3.
C25_Witness ==
    /\ spc = "returned"
    /\ llmCalls = GEMINI_RETRY_MAX
    /\ nWaits = GEMINI_RETRY_MAX - 1
    /\ lastWait = <<2, 49>>
    /\ sresult # None
    /\ sresult[1].scoring_status = "error"

(***************************************************************************)
(* Claims about the months of the usage table                              *)
(***************************************************************************)

\* C26: a row of on_demand_usage belongs to one identity and one year-month;
\* a call of _check_and_increment_usage touches only the row of its identity
\* and the current year-month: every other row, the rows of earlier months
\* and of other identities included, stays as it was, and no row is removed;
\* the first call of an identity in a month returns (True, 1) and stores 1,
\* whatever the identity's count of the month before; a change of month
\* changes no row.
C26_MonthlyRollover ==
    [][ /\ nCalls' # nCalls
           => LET key == qret'.key IN
              /\ qret'.op = "check"
              /\ key[1] \in Identities
              /\ key[2] = YearMonth(clockMonth)
              /\ DOMAIN usage' = DOMAIN usage \cup {key}
              /\ \A k \in DOMAIN usage : k # key => usage'[k] = usage[k]
              /\ key \notin DOMAIN usage
                 => /\ qret'.allowed
                    /\ qret'.count = 1
                    /\ usage'[key] = 1
        /\ clockMonth' # clockMonth => usage' = usage
        /\ nCalls' = nCalls => usage' = usage ]_vars

\* u:7 reached the cap in December of year 0; its first call in January of
\* year 1 returned (True, 1) and the December row still holds the cap.
C26_Witness ==
    /\ clockMonth = 12
    /\ <<"u:7", <<0, 12>>>> \in DOMAIN usage
    /\ usage[<<"u:7", <<0, 12>>>>] = ON_DEMAND_MONTHLY_CAP
    /\ <<"u:7", <<1, 1>>>> \in DOMAIN usage
    /\ usage[<<"u:7", <<1, 1>>>>] = 1
    /\ qret = [op |-> "check", key |-> <<"u:7", <<1, 1>>>>, allowed |-> TRUE,
               count |-> 1]

(***************************************************************************)
(* Claims about the quality excerpts                                       *)
(***************************************************************************)

InitExcerpts ==
    /\ QuotaInit /\ OverallIdle /\ ScoreIdle /\ UpsertIdle
    /\ OnDemandIdle /\ ContextIdle /\ AdapterIdle /\ RequestIdle
    /\ ExcerptInit

SpecExcerpts == InitExcerpts /\ [][NextExcerpts]_vars

\* ex holds, in order, cut texts of reviews: each excerpt is matched to the
\* earliest review after the one matched before it.
InInputOrder(ex, reviews) ==
    LET RECURSIVE Match(_, _)
        Match(i, from) ==
            IF i > Len(ex) THEN TRUE
            ELSE LET later == {k \in from .. Len(reviews) :
                                  Truncate(reviews[k]) = ex[i]}
                 IN /\ later # {}
                    /\ Match(i + 1,
                             (CHOOSE k \in later : \A j \in later : k <= j) + 1)
    IN Match(1, 1)

\* C27: every excerpt _filter_quality_excerpts returns is 50 to 600
\* characters long and holds a quality keyword; no two have the same
\* lowercase 60-character prefix; there are at most 80; they are cut reviews
\* of the input, in its order.
C27_FilteredExcerptsWellFormed ==
    (xOut # None /\ xOut[1].fn = "filter")
    => LET ex == xOut[1].excerpts
       IN /\ \A i \in DOMAIN ex :
                /\ ex[i].len >= 50
                /\ ex[i].len <= 600
                /\ ex[i].term # 0
          /\ \A i, j \in DOMAIN ex :
                i # j => PrefixKey(ex[i]) # PrefixKey(ex[j])
          /\ Len(ex) <= 80
          /\ InInputOrder(ex, xArgs)

\* C28: with 3 or more quality excerpts, or without reviews, fetch_book_context
\* keeps the quality excerpts as they are; otherwise they stay in front, the
\* list holds at most 30, it is in input order behind them, and unless it has
\* reached 30 every review of at least 50 characters has its lowercase prefix
\* among those of the excerpts' reviews.
C28_BackfillTakesEveryLongEnoughReview ==
    (xOut # None /\ xOut[1].fn = "context")
    => LET ex == xOut[1].excerpts
           quality == FilterQualityExcerpts(xArgs)
           added == SubSeq(ex, Len(quality) + 1, Len(ex))
       IN IF Len(quality) >= 3 \/ xArgs = <<>>
          THEN ex = quality
          ELSE /\ Len(ex) >= Len(quality)
               /\ SubSeq(ex, 1, Len(quality)) = quality
               /\ Len(ex) <= 30
               /\ InInputOrder(added, xArgs)
               /\ Len(ex) < 30
                  => \A i \in DOMAIN xArgs :
                        xArgs[i].len >= 50
                        => \E k \in DOMAIN xArgs :
                              /\ PrefixKey(xArgs[k]) = PrefixKey(xArgs[i])
                              /\ \E j \in DOMAIN ex : ex[j] = Truncate(xArgs[k])

====
